---------------------------- MODULE Spec2Model ----------------------------
(***************************************************************************)
(* ChurBro price pipeline: four store scrapers (New World, PAK'nSAVE,      *)
(* Woolworths, Mad Butcher), their cleanup scripts and the daily           *)
(* aggregation script.                                                     *)
(*                                                                         *)
(* Conventions of the model                                                *)
(*   - a currency amount is an integer number of cents;                    *)
(*   - a text is a sequence of one-character strings;                      *)
(*   - an optional value (Python None / CSV NaN) is a sequence of length   *)
(*     at most one: None == <<>>, Some(x) == <<x>>;                        *)
(*   - the result of an extractor is a record tagged by kind: "ok" with a  *)
(*     value, "none" (Python None) or "raised" (an exception left it);     *)
(*   - percent_off is an exact rational [n, d] (n/d percent).              *)
(***************************************************************************)
EXTENDS Integers, Sequences, FiniteSets, TLC

-----------------------------------------------------------------------------
(* Optional values and extractor results *)

None == <<>>
Some(x) == <<x>>
IsNone(o) == o = <<>>
Val(o) == o[1]

Ok(v) == [kind |-> "ok", val |-> v]
NoneR == [kind |-> "none"]
RaisedR == [kind |-> "raised"]

Stores == {"newworld", "paknsave", "woolworths", "madbutcher"}

-----------------------------------------------------------------------------
(* Text: str.lower, str.strip, startswith, endswith, substring test *)

UpperChars == <<"A", "B", "C", "D", "E", "F", "G", "H", "I", "J", "K", "L", "M",
                "N", "O", "P", "Q", "R", "S", "T", "U", "V", "W", "X", "Y", "Z">>
LowerChars == <<"a", "b", "c", "d", "e", "f", "g", "h", "i", "j", "k", "l", "m",
                "n", "o", "p", "q", "r", "s", "t", "u", "v", "w", "x", "y", "z">>
DigitChars == {"0", "1", "2", "3", "4", "5", "6", "7", "8", "9"}
SpaceChars == {" ", "\n", "\t"}

LowerChar(c) ==
    IF \E i \in 1..26 : UpperChars[i] = c
    THEN LowerChars[CHOOSE i \in 1..26 : UpperChars[i] = c]
    ELSE c

IsLetter(c) == \E i \in 1..26 : UpperChars[i] = c \/ LowerChars[i] = c

lower(t) == [i \in 1..Len(t) |-> LowerChar(t[i])]

RECURSIVE lstrip(_)
lstrip(t) == IF t # <<>> /\ Head(t) \in SpaceChars THEN lstrip(Tail(t)) ELSE t

RECURSIVE rstrip(_)
rstrip(t) ==
    IF t # <<>> /\ t[Len(t)] \in SpaceChars
    THEN rstrip(SubSeq(t, 1, Len(t) - 1))
    ELSE t

strip(t) == rstrip(lstrip(t))

startswith(t, c) == t # <<>> /\ t[1] = c
endswith(t, c) == t # <<>> /\ t[Len(t)] = c

\* Python's  sub in t
Contains(t, sub) ==
    \E i \in 1..(Len(t) - Len(sub) + 1) : SubSeq(t, i, i + Len(sub) - 1) = sub

\* number of characters of t that are digits:  len(re.sub(r'[^\d]', '', t))
RECURSIVE CountDigits(_)
CountDigits(t) ==
    IF t = <<>> THEN 0
    ELSE (IF Head(t) \in DigitChars THEN 1 ELSE 0) + CountDigits(Tail(t))

\* re.search(r'[a-zA-Z]{3,}', t)
HasLetterRun3(t) ==
    \E i \in 1..(Len(t) - 2) : IsLetter(t[i]) /\ IsLetter(t[i + 1]) /\ IsLetter(t[i + 2])

\* re.match(r'^\$?\d+[\s\n.]\d+$', t): an optional "$", digits, one separator, digits
IsPricePattern(t) ==
    LET u == IF startswith(t, "$") THEN Tail(t) ELSE t
    IN \E k \in 2..(Len(u) - 1) :
          /\ u[k] \in SpaceChars \cup {"."}
          /\ \A i \in 1..(k - 1) : u[i] \in DigitChars
          /\ \A i \in (k + 1)..Len(u) : u[i] \in DigitChars

-----------------------------------------------------------------------------
(* The texts a card's elements carry in this model *)

T_beef == <<"B", "e", "e", "f", " ", "M", "i", "n", "c", "e", " ", "5", "0", "0", "g">>
T_lamb == <<"L", "a", "m", "b">>
T_cart == <<"A", "d", "d", " ", "t", "o", " ", "c", "a", "r", "t">>
T_dollar == <<"$", "5", " ", "o", "f", "f", " ", "t", "o", "d", "a", "y">>
T_padded == <<" ", "$", "5", " ", "d", "e", "a", "l", " ", "n", "o", "w">>
T_specials == <<"S", "p", "e", "c", "i", "a", "l", "s", "!">>
T_hours == <<"O", "p", "e", "n", "i", "n", "g", " ", "H", "o", "u", "r", "s">>
T_digits == <<"5", " ", "2", "0", " ", "8", " ", "8", "0", " ", "k", "g">>
T_steak == <<"R", "u", "m", "p", " ", "S", "t", "e", "a", "k">>
T_empty == <<>>

Texts == {T_beef, T_lamb, T_cart, T_dollar, T_padded, T_specials, T_hours,
          T_digits, T_steak, T_empty}

-----------------------------------------------------------------------------
(* Name extraction *)

\* The first element of a sequence satisfying a test, as an optional value
FirstWhere(seq, Test(_)) ==
    IF \E i \in 1..Len(seq) : Test(seq[i])
    THEN Some(seq[CHOOSE i \in 1..Len(seq) :
                    Test(seq[i]) /\ \A j \in 1..(i - 1) : ~Test(seq[j])])
    ELSE None

skip_words == { <<"a", "d", "d">>, <<"v", "i", "e", "w">>, <<"c", "a", "r", "t">>,
                <<"m", "o", "r", "e">>, <<"d", "e", "t", "a", "i", "l", "s">>,
                <<"s", "h", "o", "p">>, <<"b", "u", "y">> }

\* New World / PAK'nSAVE, strategy 1: the test an anchor's stripped text passes
AnchorNameOk(text) ==
    /\ text # <<>>
    /\ Len(text) > 5
    /\ ~startswith(text, "$")
    /\ ~\E word \in skip_words : Contains(lower(text), word)

\* New World / PAK'nSAVE, strategy 2: the test a heading's text passes
HeadingNameOk(text) == text # <<>> /\ Len(strip(text)) > 5

\* NewWorldScraper.extract_name (PaknsaveScraper.extract_name is the same code)
extract_name_NW(card) ==
    IF card.fault = "name" THEN RaisedR
    ELSE LET stripped == [i \in 1..Len(card.anchors) |-> strip(card.anchors[i])]
             a == FirstWhere(stripped, AnchorNameOk)
             h == FirstWhere(card.headings, HeadingNameOk)
         IN IF ~IsNone(a) THEN Ok(Val(a))
            ELSE IF ~IsNone(h) THEN Ok(strip(Val(h)))
            ELSE IF ~IsNone(card.name_elem) THEN Ok(Val(card.name_elem))
            ELSE NoneR

extract_name_PS(card) == extract_name_NW(card)

\* WoolworthsScraper.extract_name.is_valid_product_name
is_valid_product_name_WW(text0) ==
    IF text0 = <<>> \/ Len(strip(text0)) < 10 THEN FALSE
    ELSE LET text == strip(text0)
         IN /\ ~startswith(text, "$")
            /\ ~(CountDigits(text) > 0 /\ 2 * CountDigits(text) > Len(text))
            /\ ~IsPricePattern(text)
            /\ HasLetterRun3(text)

\* WoolworthsScraper.extract_name
extract_name_WW(card) ==
    IF card.fault = "name" THEN RaisedR
    ELSE LET h == FirstWhere(card.headings, is_valid_product_name_WW)
             l == IF IsNone(card.link) THEN None
                  ELSE FirstWhere(Val(card.link), is_valid_product_name_WW)
         IN IF ~IsNone(h) THEN Ok(strip(Val(h)))
            ELSE IF ~IsNone(l) THEN Ok(strip(Val(l)))
            ELSE IF ~IsNone(card.aria_label) /\ Val(card.aria_label) # <<>>
                    /\ is_valid_product_name_WW(Val(card.aria_label))
                 THEN Ok(strip(Val(card.aria_label)))
            ELSE IF ~IsNone(card.title) /\ Val(card.title) # <<>>
                    /\ is_valid_product_name_WW(Val(card.title))
                 THEN Ok(strip(Val(card.title)))
            ELSE NoneR

invalid_phrases == {
    <<"c", "h", "r", "i", "s", "t", "m", "a", "s", " ", "h", "o", "u", "r", "s">>,
    <<"o", "p", "e", "n", "i", "n", "g", " ", "h", "o", "u", "r", "s">>,
    <<"h", "o", "l", "i", "d", "a", "y", " ", "h", "o", "u", "r", "s">>,
    <<"s", "p", "e", "c", "i", "a", "l", "s", "!">>,
    <<"s", "p", "e", "c", "i", "a", "l", "s">>,
    <<"c", "l", "o", "s", "e", "d">>,
    <<"c", "o", "n", "t", "a", "c", "t", " ", "u", "s">>,
    <<"a", "d", "d", " ", "t", "o", " ", "c", "a", "r", "t">>,
    <<"s", "e", "l", "e", "c", "t", " ", "o", "p", "t", "i", "o", "n", "s">>,
    <<"v", "i", "e", "w", " ", "d", "e", "t", "a", "i", "l", "s">>,
    <<"s", "h", "o", "p", " ", "n", "o", "w">> }

\* MadButcherScraper.extract_name.is_valid_product_name: the phrase and "$"
\* tests read the text as given, not stripped
is_valid_product_name_MB(text) ==
    IF text = <<>> \/ Len(strip(text)) < 5 THEN FALSE
    ELSE /\ ~\E phrase \in invalid_phrases : Contains(lower(text), phrase)
         /\ ~startswith(text, "$")
         /\ ~(Len(text) < 12 /\ endswith(text, "!"))

\* MadButcherScraper.extract_name
extract_name_MB(card) ==
    IF card.fault = "name" THEN RaisedR
    ELSE LET lines == IF IsNone(card.link) THEN <<>>
                      ELSE [i \in 1..Len(Val(card.link)) |-> strip(Val(card.link)[i])]
             l == FirstWhere(lines, is_valid_product_name_MB)
             stripped == [i \in 1..Len(card.anchors) |-> strip(card.anchors[i])]
             a == FirstWhere(stripped, is_valid_product_name_MB)
         IN IF ~IsNone(card.title_elem) /\ is_valid_product_name_MB(Val(card.title_elem))
            THEN Ok(strip(Val(card.title_elem)))
            ELSE IF ~IsNone(l) THEN Ok(Val(l))
            ELSE IF ~IsNone(a) THEN Ok(Val(a))
            ELSE NoneR

-----------------------------------------------------------------------------
(* Price tokens of a card's text.                                          *)
(* A token is one price written in the text, [d, c, hint]: d dollars,      *)
(* c cents (two digits), and what follows it: "ea" (an "ea"/"each" label), *)
(* "kg" (a "kg" label), "perkg" ("/kg" or "/1kg": a per-kilogram           *)
(* reference) or "none" (no label).  A PAK'nSAVE token also says whether   *)
(* dollars and cents are joined by a dot ("3.79") or split ("3 79").       *)

\* float(f"{int(dollars)}.{cents}")
to_float(dollars, cents) == 100 * dollars + cents

Price(tok) == to_float(tok.d, tok.c)

\* the values of the tokens of a sequence that pass a test, in text order
PricesWhere(tokens, Test(_)) ==
    LET sel == SelectSeq(tokens, Test)
    IN [i \in 1..Len(sel) |-> Price(sel[i])]

SeqMax(seq) == CHOOSE x \in {seq[i] : i \in 1..Len(seq)} :
                   \A j \in 1..Len(seq) : seq[j] <= x
SeqMin(seq) == CHOOSE x \in {seq[i] : i \in 1..Len(seq)} :
                   \A j \in 1..Len(seq) : seq[j] >= x

\* a range check that lets every price through
InRange_unbounded(p) == p = p

\* the plausible range of a price, 0.5 <= p <= 500
InRange(p) == 50 <= p /\ p <= 50000

IsEa(tok) == tok.hint = "ea"
IsKg(tok) == tok.hint = "kg"
IsPerKg(tok) == tok.hint = "perkg"
IsAny(tok) == TRUE

-----------------------------------------------------------------------------
(* New World *)

\* NewWorldScraper.is_club_deal: the signals in the order the code tries them.
\* A query that raises leaves the method, except the class lookups (try/except).
is_club_deal(card) ==
    IF card.badge_at > 0 \/ card.club_signal = "text" THEN Ok(TRUE)
    ELSE IF card.fault = "img" THEN RaisedR
    ELSE IF card.club_signal = "img" THEN Ok(TRUE)
    ELSE IF card.fault = "aria" THEN RaisedR
    ELSE IF card.club_signal = "aria" THEN Ok(TRUE)
    ELSE IF card.fault = "data" THEN RaisedR
    ELSE IF card.club_signal = "data" THEN Ok(TRUE)
    ELSE IF card.club_signal = "class" /\ card.fault # "class" THEN Ok(TRUE)
    ELSE IF card.club_signal = "word" THEN Ok(TRUE)
    ELSE Ok(FALSE)

\* NewWorldScraper.is_super_saver
is_super_saver(card) ==
    IF card.super_signal = "text" THEN Ok(TRUE)
    ELSE IF card.fault = "img" THEN RaisedR
    ELSE IF card.super_signal = "img" THEN Ok(TRUE)
    ELSE IF card.fault = "aria" THEN RaisedR
    ELSE IF card.super_signal = "aria" THEN Ok(TRUE)
    ELSE IF card.fault = "data" THEN RaisedR
    ELSE IF card.super_signal = "data" THEN Ok(TRUE)
    ELSE IF card.super_signal = "class" /\ card.fault # "class" THEN Ok(TRUE)
    ELSE Ok(FALSE)

\* a step 4 that looks at the "kg" tokens before the "ea" tokens
UnitPrice_NW_kg_first(card) ==
    LET ea_prices == PricesWhere(card.tokens, IsEa)
        kg_prices == PricesWhere(card.tokens, IsKg)
        generic_prices == SelectSeq(PricesWhere(card.tokens, IsAny), InRange)
    IN IF kg_prices # <<>>
       THEN Ok([unit_type |-> "kg", original_price |-> kg_prices[Len(kg_prices)]])
       ELSE IF ea_prices # <<>>
       THEN Ok([unit_type |-> "ea", original_price |-> ea_prices[Len(ea_prices)]])
       ELSE IF generic_prices = <<>> THEN NoneR
       ELSE Ok([unit_type |-> "ea", original_price |-> SeqMax(generic_prices)])

\* NewWorldScraper.extract_all_prices, step 4: unit type and base price
\* ("ea" tokens first, then "kg" tokens, then the largest in-range token)
UnitPrice_NW(card) ==
    LET ea_prices == PricesWhere(card.tokens, IsEa)
        kg_prices == PricesWhere(card.tokens, IsKg)
        generic_prices == SelectSeq(PricesWhere(card.tokens, IsAny), InRange)
    IN IF ea_prices # <<>>
       THEN Ok([unit_type |-> "ea", original_price |-> ea_prices[Len(ea_prices)]])
       ELSE IF kg_prices # <<>>
       THEN Ok([unit_type |-> "kg", original_price |-> kg_prices[Len(kg_prices)]])
       ELSE IF generic_prices = <<>> THEN NoneR
       ELSE Ok([unit_type |-> "ea", original_price |-> SeqMax(generic_prices)])

\* step 5: the per-kilogram price of the result
PricePerKg_NW(card, unit_type, sale_price) ==
    LET per_kg_prices == PricesWhere(card.tokens, IsPerKg)
    IN IF per_kg_prices # <<>> THEN Some(per_kg_prices[1])
       ELSE IF unit_type = "kg" THEN Some(sale_price)
       ELSE None

\* a step 6 that takes the badge price whether or not it is below the
\* original price
ClubPrice_NW_any_badge(card, original_price, price_per_kg) ==
    IF card.badge_at > 0 /\ InRange(Price(card.tokens[card.badge_at]))
    THEN Price(card.tokens[card.badge_at])
    ELSE original_price

\* step 6: the Club Deal price.  badge_price is the token that follows the
\* words "club deal"; the fallback is the smallest in-range token that is not
\* the stored per-kg price and is more than a cent below the original price.
ClubPrice_NW(card, original_price, price_per_kg) ==
    LET badge_price == IF card.badge_at > 0
                       THEN Some(Price(card.tokens[card.badge_at]))
                       ELSE None
        all_prices == SelectSeq(PricesWhere(card.tokens, IsAny), InRange)
        NotRef(p) == IsNone(price_per_kg) \/ p # Val(price_per_kg)
        Below(p) == p < original_price - 1
        discounted == SelectSeq(SelectSeq(all_prices, NotRef), Below)
    IN IF ~IsNone(badge_price) /\ Val(badge_price) # 0 /\ InRange(Val(badge_price))
       THEN (IF Val(badge_price) < original_price
             THEN Val(badge_price) ELSE original_price)
       ELSE IF discounted # <<>> THEN SeqMin(discounted)
       ELSE original_price

\* NewWorldScraper.extract_all_prices
extract_all_prices_NW(card, club) ==
    LET unit == UnitPrice_NW(card)
    IN IF unit.kind = "none" THEN NoneR
       ELSE LET unit_type == unit.val.unit_type
                original_price == unit.val.original_price
                price_per_kg == PricePerKg_NW(card, unit_type, original_price)
                sale_price == IF club
                              THEN ClubPrice_NW(card, original_price, price_per_kg)
                              ELSE original_price
            IN IF ~InRange(sale_price) THEN NoneR
               ELSE Ok([sale_price |-> sale_price,
                        original_price |-> original_price,
                        unit_type |-> unit_type,
                        price_per_kg |-> price_per_kg])

\* NewWorldScraper.extract_sku / PaknsaveScraper.extract_product_id: the digit
\* run of the first identifying attribute that has one
extract_sku_NW(card) == IF card.fault = "sku" THEN RaisedR ELSE Ok(card.sku_attr)

\* NewWorldScraper.extract_brand
extract_brand_NW(card) == IF card.fault = "brand" THEN RaisedR ELSE Ok(card.brand_elem)

\* NewWorldScraper.parse_product_card, the body of its try block
parse_body_NW(card, now) ==
    IF card.fault = "inner_text" THEN RaisedR
    ELSE LET name == extract_name_NW(card)
             club == is_club_deal(card)
             super == is_super_saver(card)
             sku == extract_sku_NW(card)
             brand == extract_brand_NW(card)
         IN IF name.kind = "raised" THEN RaisedR
            ELSE IF name.kind = "none" \/ name.val = <<>> THEN NoneR
            ELSE IF club.kind = "raised" \/ super.kind = "raised" THEN RaisedR
            ELSE LET price_data == extract_all_prices_NW(card, club.val)
                 IN IF price_data.kind = "none" THEN NoneR
                    ELSE IF sku.kind = "raised" \/ brand.kind = "raised" THEN RaisedR
                    ELSE Ok([store |-> "newworld",
                             sku |-> sku.val,
                             name |-> name.val,
                             brand |-> brand.val,
                             sale_price |-> price_data.val.sale_price,
                             original_price |-> price_data.val.original_price,
                             price_per_kg |-> price_data.val.price_per_kg,
                             unit_type |-> price_data.val.unit_type,
                             saving |-> price_data.val.original_price
                                          - price_data.val.sale_price,
                             is_club_deal |-> club.val,
                             is_super_saver |-> super.val,
                             scraped_at |-> now])

\* a parse_product_card without the except clause: the exception leaves it
ExceptPropagates(result) == result

\* the except clause of parse_product_card: any exception becomes None
ExceptToNone(result) == IF result.kind = "raised" THEN NoneR ELSE result

\* NewWorldScraper.parse_product_card
parse_product_card_NW(card, now) == ExceptToNone(parse_body_NW(card, now))

-----------------------------------------------------------------------------
(* PAK'nSAVE *)

IsUnit(tok) == tok.hint \in {"ea", "kg"}
IsDotted(tok) == tok.dot
IsDottedPerKg(tok) == tok.hint = "perkg" /\ tok.dot

\* the plausible range of a PAK'nSAVE price, 0.5 < p < 500
InRange_PS(p) == 50 < p /\ p < 50000

\* PaknsaveScraper.extract_all_prices: the first labelled unit price; without
\* one, the first dotted price of the text
extract_all_prices_PS(card) ==
    LET unit_prices == SelectSeq(card.tokens, IsUnit)
        per_kg_ref == PricesWhere(card.tokens, IsDottedPerKg)
        all_prices == PricesWhere(card.tokens, IsDotted)
    IN IF unit_prices = <<>>
       THEN (IF all_prices # <<>> /\ InRange_PS(all_prices[1])
             THEN Ok([price |-> all_prices[1], price_per_kg |-> None,
                      unit_type |-> "ea"])
             ELSE NoneR)
       ELSE LET main_price == Price(unit_prices[1])
                unit_type == IF unit_prices[1].hint = "kg" THEN "kg" ELSE "ea"
                price_per_kg == IF per_kg_ref # <<>> THEN Some(per_kg_ref[1]) ELSE None
            IN IF ~InRange_PS(main_price) THEN NoneR
               ELSE Ok([price |-> main_price, price_per_kg |-> price_per_kg,
                        unit_type |-> unit_type])

\* PaknsaveScraper.is_everyday_low: badge 4701, or the words in the text
is_everyday_low(card) ==
    IF card.fault = "badge" THEN RaisedR
    ELSE Ok(card.badge_svg = "4701" \/ card.badge_text = "everyday")

\* PaknsaveScraper.is_extra_low: badge 6000, or the words in the text
is_extra_low(card) ==
    IF card.fault = "badge" THEN RaisedR
    ELSE Ok(card.badge_svg = "6000" \/ card.badge_text = "extra")

\* PaknsaveScraper.is_super_deal: any other badge, or the words in the text
is_super_deal(card) ==
    IF card.fault = "badge" THEN RaisedR
    ELSE Ok(card.badge_svg = "other" \/ card.badge_text = "super")

\* PaknsaveScraper.parse_product_card, the body of its try block
parse_body_PS(card, now) ==
    IF card.fault = "inner_text" THEN RaisedR
    ELSE LET name == extract_name_PS(card)
             price_data == extract_all_prices_PS(card)
             everyday == is_everyday_low(card)
             extra == is_extra_low(card)
             super == is_super_deal(card)
             product_id == extract_sku_NW(card)
             brand == extract_brand_NW(card)
         IN IF name.kind = "raised" THEN RaisedR
            ELSE IF name.kind = "none" \/ name.val = <<>> THEN NoneR
            ELSE IF price_data.kind = "none" THEN NoneR
            ELSE IF \/ everyday.kind = "raised" \/ extra.kind = "raised"
                    \/ super.kind = "raised" \/ product_id.kind = "raised"
                    \/ brand.kind = "raised"
                 THEN RaisedR
            ELSE Ok([store |-> "paknsave",
                     product_id |-> product_id.val,
                     name |-> name.val,
                     brand |-> brand.val,
                     price |-> price_data.val.price,
                     price_per_kg |-> price_data.val.price_per_kg,
                     unit_type |-> price_data.val.unit_type,
                     promo_price |-> price_data.val.price,
                     saving |-> 0,
                     is_everyday_low |-> everyday.val,
                     is_extra_low |-> extra.val,
                     is_super_deal |-> super.val,
                     scraped_at |-> now])

\* PaknsaveScraper.parse_product_card
parse_product_card_PS(card, now) == ExceptToNone(parse_body_PS(card, now))

-----------------------------------------------------------------------------
(* Woolworths *)

T_woolworths == <<"w", "o", "o", "l", "w", "o", "r", "t", "h", "s">>

\* a pack price must satisfy 1 < price < 500
InRange_WW(p) == 100 < p /\ p < 50000

\* WoolworthsScraper.extract_pack_price, strategy 1: the price-dollars and
\* price-cents elements (card.dollars_cents: the digits of both, when both
\* elements exist; cents without digits count as "00")
PackPrice1(card) ==
    IF IsNone(card.dollars_cents) \/ IsNone(Val(card.dollars_cents).dollars) THEN None
    ELSE LET dc == Val(card.dollars_cents)
             price == to_float(Val(dc.dollars), IF IsNone(dc.cents) THEN 0 ELSE Val(dc.cents))
         IN IF InRange_WW(price) THEN Some(price) ELSE None

\* strategy 2: the first price element (in selector order) whose price is in
\* range and is not the amount of a multi-buy ("for $N")
PackPrice2(card) ==
    LET Usable(e) == ~e.multibuy /\ InRange_WW(e.price)
        first == FirstWhere(card.sel_prices, Usable)
    IN IF IsNone(first) THEN None ELSE Some(Val(first).price)

\* strategy 3: the smallest "$d.dd" price of the text that is not a multi-buy
\* amount, is at most 100 and is between 1 and 500
PackPrice3(card) ==
    LET Usable(e) == ~e.multibuy /\ e.price <= 10000 /\ e.price >= 100 /\ e.price <= 50000
        usable == SelectSeq(card.text_prices, Usable)
        prices == [i \in 1..Len(usable) |-> usable[i].price]
    IN IF prices = <<>> THEN None ELSE Some(SeqMin(prices))

\* WoolworthsScraper.extract_pack_price
extract_pack_price(card) ==
    IF card.fault = "price" THEN RaisedR
    ELSE IF ~IsNone(PackPrice1(card)) THEN Ok(PackPrice1(card))
    ELSE IF ~IsNone(PackPrice2(card)) THEN Ok(PackPrice2(card))
    ELSE Ok(PackPrice3(card))

\* WoolworthsScraper.extract_original_price: "was $d.dd" in the text, else the
\* first struck-through element that holds a price
extract_original_price(card) ==
    IF card.fault = "price" THEN RaisedR
    ELSE IF ~IsNone(card.was) THEN Ok(card.was)
    ELSE IF card.strike # <<>> THEN Ok(Some(card.strike[1]))
    ELSE Ok(None)

\* WoolworthsScraper.extract_sku
extract_sku_WW(card) == IF card.fault = "sku" THEN RaisedR ELSE Ok(card.sku_attr)

\* WoolworthsScraper.extract_brand
extract_brand_WW(card, name) ==
    IF card.fault = "brand" THEN RaisedR
    ELSE IF ~IsNone(card.brand_elem) THEN Ok(card.brand_elem)
    ELSE IF name # <<>> /\ Contains(lower(name), T_woolworths)
         THEN Ok(Some(<<"W">> \o Tail(T_woolworths)))
    ELSE Ok(None)

\* WoolworthsScraper.parse_product_card, the body of its try block
parse_body_WW(card, now) ==
    LET name == extract_name_WW(card)
    IN IF name.kind = "raised" THEN RaisedR
       ELSE IF name.kind = "none" \/ name.val = <<>> THEN NoneR
       ELSE LET pack == extract_pack_price(card)
                was == extract_original_price(card)
                sku == extract_sku_WW(card)
                brand == extract_brand_WW(card, name.val)
            IN IF pack.kind = "raised" THEN RaisedR
               ELSE IF IsNone(pack.val) THEN NoneR
               ELSE IF was.kind = "raised" \/ sku.kind = "raised" \/ brand.kind = "raised"
                    THEN RaisedR
               ELSE LET sale_price == Val(pack.val)
                        original_price == IF IsNone(was.val) \/ Val(was.val) = 0
                                          THEN sale_price ELSE Val(was.val)
                    IN Ok([store |-> "woolworths",
                           sku |-> sku.val,
                           name |-> name.val,
                           brand |-> brand.val,
                           sale_price |-> sale_price,
                           original_price |-> original_price,
                           saving |-> IF original_price > sale_price
                                      THEN original_price - sale_price ELSE 0,
                           scraped_at |-> now])

\* WoolworthsScraper.parse_product_card
parse_product_card_WW(card, now) == ExceptToNone(parse_body_WW(card, now))

-----------------------------------------------------------------------------
(* Mad Butcher *)

DigitSeq == <<"0", "1", "2", "3", "4", "5", "6", "7", "8", "9">>
DigitVal(c) == (CHOOSE i \in 1..10 : DigitSeq[i] = c) - 1

\* int() of a run of digits
RECURSIVE ParseInt(_)
ParseInt(digits) ==
    IF digits = <<>> THEN 0
    ELSE 10 * ParseInt(SubSeq(digits, 1, Len(digits) - 1)) + DigitVal(digits[Len(digits)])

\* the first two decimals of a run of digits, in cents
Cents(frac) ==
    IF frac = <<>> THEN 0
    ELSE IF Len(frac) = 1 THEN 10 * DigitVal(frac[1])
    ELSE 10 * DigitVal(frac[1]) + DigitVal(frac[2])

\* MadButcherScraper.parse_price_text: drop everything but digits and dots and
\* read the rest as a decimal number; anything float() rejects gives None
\* (the texts of the model carry at most two decimals)
parse_price_text(text) ==
    LET Kept(c) == c \in DigitChars \/ c = "."
        clean == SelectSeq(text, Kept)
        dots == {i \in 1..Len(clean) : clean[i] = "."}
    IN IF Cardinality(dots) > 1 \/ Len(clean) = Cardinality(dots) THEN None
       ELSE IF dots = {} THEN Some(100 * ParseInt(clean))
       ELSE LET d == CHOOSE i \in dots : TRUE
            IN Some(100 * ParseInt(SubSeq(clean, 1, d - 1))
                    + Cents(SubSeq(clean, d + 1, Len(clean))))

\* re.findall(r'\$\s*(\d+)\.(\d{2})', text): the match that starts at the "$"
\* of position i, as a price, when there is one
DollarMatchAt(text, i) ==
    IF text[i] # "$" THEN None
    ELSE LET n == Len(text)
             j == CHOOSE x \in (i + 1)..(n + 1) :
                      /\ x = n + 1 \/ text[x] \notin SpaceChars
                      /\ \A y \in (i + 1)..(x - 1) : text[y] \in SpaceChars
             k == CHOOSE x \in j..(n + 1) :
                      /\ x = n + 1 \/ text[x] \notin DigitChars
                      /\ \A y \in j..(x - 1) : text[y] \in DigitChars
         IN IF /\ k > j
               /\ k + 2 <= n
               /\ text[k] = "."
               /\ text[k + 1] \in DigitChars
               /\ text[k + 2] \in DigitChars
            THEN Some(to_float(ParseInt(SubSeq(text, j, k - 1)),
                               ParseInt(SubSeq(text, k + 1, k + 2))))
            ELSE None

\* the first match of the pattern in the text
FirstDollarPrice(text) ==
    LET hits == {i \in 1..Len(text) : ~IsNone(DollarMatchAt(text, i))}
    IN IF hits = {} THEN None
       ELSE DollarMatchAt(text, CHOOSE i \in hits : \A h \in hits : i <= h)

\* texts joined by a blank, as inner_text() lays out sibling elements
RECURSIVE JoinTexts(_)
JoinTexts(texts) ==
    IF texts = <<>> THEN <<>>
    ELSE IF Len(texts) = 1 THEN texts[1]
    ELSE texts[1] \o <<" ">> \o JoinTexts(Tail(texts))

\* card.inner_text() of a Mad Butcher card: title, price amounts, the rest
full_text_MB(card) ==
    JoinTexts(<<IF IsNone(card.title_elem) THEN <<>> ELSE Val(card.title_elem),
                JoinTexts([i \in 1..Len(card.amounts) |-> card.amounts[i].text]),
                card.extra>>)

T_kg == <<"k", "g">>

\* "not x" of an optional price: None or zero
Falsy(o) == IsNone(o) \/ Val(o) = 0

\* MadButcherScraper.extract_price
extract_price(card, full_text) ==
    IF card.fault = "price" THEN RaisedR
    ELSE LET amounts == card.amounts
             IsDel(a) == a.kind = "del"
             first == IF amounts = <<>> THEN None ELSE parse_price_text(amounts[1].text)
             regular == IF ~Falsy(first) \/ amounts = <<>> THEN first
                        ELSE IF card.price_box
                             THEN parse_price_text(
                                      JoinTexts([i \in 1..Len(amounts) |-> amounts[i].text]))
                        ELSE parse_price_text(amounts[1].text)
             del_elem == FirstWhere(amounts, IsDel)
             original == IF IsNone(del_elem) THEN None
                         ELSE parse_price_text(Val(del_elem).text)
             sale == IF Falsy(regular) THEN FirstDollarPrice(full_text) ELSE regular
         IN IF Falsy(sale) \/ Val(sale) < 100 \/ Val(sale) > 50000 THEN Ok(None)
            ELSE LET kg == Contains(lower(full_text), T_kg)
                 IN Ok(Some([sale_price |-> Val(sale),
                             original_price |-> IF Falsy(original) THEN Val(sale)
                                                ELSE Val(original),
                             unit_type |-> IF kg THEN "kg" ELSE "ea",
                             price_per_kg |-> IF kg THEN sale ELSE None]))

\* MadButcherScraper.extract_sku
extract_sku_MB(card) == IF card.fault = "sku" THEN RaisedR ELSE Ok(card.sku_attr)

T_brand_MB == <<"M", "a", "d", " ", "B", "u", "t", "c", "h", "e", "r">>

\* MadButcherScraper.parse_product_card, the body of its try block
parse_body_MB(card, now) ==
    IF card.fault = "text" THEN RaisedR
    ELSE LET name == extract_name_MB(card)
         IN IF name.kind = "raised" THEN RaisedR
            ELSE IF name.kind = "none" \/ name.val = <<>> THEN NoneR
            ELSE LET price_data == extract_price(card, full_text_MB(card))
                     sku == extract_sku_MB(card)
                 IN IF price_data.kind = "raised" THEN RaisedR
                    ELSE IF IsNone(price_data.val) THEN NoneR
                    ELSE IF sku.kind = "raised" THEN RaisedR
                    ELSE LET pd == Val(price_data.val)
                         IN Ok([store |-> "madbutcher",
                                sku |-> sku.val,
                                name |-> name.val,
                                brand |-> Some(T_brand_MB),
                                sale_price |-> pd.sale_price,
                                original_price |-> pd.original_price,
                                price_per_kg |-> pd.price_per_kg,
                                unit_type |-> pd.unit_type,
                                saving |-> pd.original_price - pd.sale_price,
                                scraped_at |-> now])

\* MadButcherScraper.parse_product_card
parse_product_card_MB(card, now) == ExceptToNone(parse_body_MB(card, now))

-----------------------------------------------------------------------------
(* Raw and cleaned batches.                                                *)
(* A batch is the sequence of rows of a CSV file.  A percentage is an      *)
(* exact fraction [n, d], d > 0, so that a rounded and an unrounded value  *)
(* can be told apart.                                                      *)

Frac(n, d) == [n |-> n, d |-> d]
FracEq(a, b) == a.n * b.d = b.n * a.d
FracNeg(a) == a.n < 0

\* round(num / den, 1) of a fraction, den > 0, as a number of tenths: to the
\* nearest tenth, a tie to the even one
RoundTenths(num, den) ==
    LET q == (20 * num + den) \div (2 * den)
        tie == (20 * num + den) % (2 * den) = 0
    IN IF tie /\ q % 2 = 1 THEN q - 1 ELSE q

\* ((original_price - sale_price) / original_price * 100).round(1)
PercentOffRounded(original_price, sale_price) ==
    Frac(RoundTenths(100 * (original_price - sale_price), original_price), 10)

\* a row with one column set (added when the frame has no such column)
WithColumn(row, col, v) ==
    [f \in DOMAIN row \cup {col} |-> IF f = col THEN v ELSE row[f]]

\* df[column_order] of save_to_csv followed by to_csv: the rows, each cut to
\* the columns of column_order that the frame has
to_csv(rows, column_order) ==
    [i \in 1..Len(rows) |-> [f \in DOMAIN rows[i] \cap column_order |-> rows[i][f]]]

\* pd.read_csv: an empty cell, which is how both a missing value and an
\* empty text are written, reads as missing
CsvCell(v) == IF v = Some(<<>>) THEN None ELSE v
read_csv(file) ==
    [i \in 1..Len(file) |-> [f \in DOMAIN file[i] |->
        IF f \in {"brand", "sku", "product_id"} THEN CsvCell(file[i][f]) ELSE file[i][f]]]

columns_NW == {"store", "sku", "name", "brand", "sale_price", "original_price",
               "price_per_kg", "unit_type", "saving", "is_club_deal",
               "is_super_saver", "scraped_at"}
columns_PS == {"store", "product_id", "name", "brand", "price", "price_per_kg",
               "unit_type", "promo_price", "saving", "is_everyday_low",
               "is_extra_low", "is_super_deal", "scraped_at"}
columns_WW == {"store", "sku", "name", "brand", "sale_price", "original_price",
               "saving", "scraped_at"}
columns_MB == {"store", "sku", "name", "brand", "sale_price", "original_price",
               "price_per_kg", "unit_type", "saving", "scraped_at"}

\* the outcome of a cleanup script: the cleaned batch it wrote, or an error
\* exit that wrote nothing
Cleaned(rows) == [status |-> "ok", rows |-> rows]
CleanFailed == [status |-> "error", rows |-> <<>>]

-----------------------------------------------------------------------------
(* Cleanup scripts *)

\* .round(2) of an amount: amounts are whole cents, which two decimals hold
Round2(cents) == cents

Map(rows, Op(_)) == [i \in 1..Len(rows) |-> Op(rows[i])]

\* a recompute step that adds to the stored saving instead of replacing it
recompute_NW_accumulating(row) ==
    LET saving == row.saving + Round2(row.original_price - row.sale_price)
        percent_off == PercentOffRounded(row.original_price, row.sale_price)
    IN WithColumn(WithColumn(row, "saving", IF saving < 0 THEN 0 ELSE saving),
                  "percent_off", IF FracNeg(percent_off) THEN Frac(0, 10) ELSE percent_off)

\* clean_newworld, RULE 2: saving and percent_off from the two prices, then
\* negative values set to zero
recompute_NW(row) ==
    LET saving == Round2(row.original_price - row.sale_price)
        percent_off == PercentOffRounded(row.original_price, row.sale_price)
    IN WithColumn(WithColumn(row, "saving", IF saving < 0 THEN 0 ELSE saving),
                  "percent_off", IF FracNeg(percent_off) THEN Frac(0, 10) ELSE percent_off)

\* a clean_newworld whose minimum price is the 5.00 of its docstring
clean_newworld_min5(input_file) ==
    LET df == read_csv(input_file)
        Keep(row) == row.sale_price >= 500
    IN Cleaned(Map(SelectSeq(df, Keep), recompute_NW))

\* clean_newworld
clean_newworld(input_file) ==
    LET df == read_csv(input_file)
        Keep(row) == row.sale_price >= 350
    IN Cleaned(Map(SelectSeq(df, Keep), recompute_NW))

\* a clean_woolworths that first lifts an original_price below the sale price
recompute_WW_lifting(row) ==
    LET original_price == IF row.original_price < row.sale_price THEN row.sale_price
                          ELSE row.original_price
    IN WithColumn(WithColumn(WithColumn(row, "original_price", original_price),
                             "saving", original_price - row.sale_price),
                  "percent_off", PercentOffRounded(original_price, row.sale_price))

\* clean_woolworths: saving and percent_off from the two prices
recompute_WW(row) ==
    WithColumn(WithColumn(row, "saving", row.original_price - row.sale_price),
               "percent_off", PercentOffRounded(row.original_price, row.sale_price))

\* clean_woolworths: the badge columns an older scraper's file lacks
add_badge_columns_WW(row) ==
    LET r1 == IF "is_club_price" \in DOMAIN row THEN row
              ELSE WithColumn(row, "is_club_price", FALSE)
    IN IF "is_on_special" \in DOMAIN r1 THEN r1 ELSE WithColumn(r1, "is_on_special", FALSE)

\* clean_woolworths
clean_woolworths(input_file) ==
    LET df == Map(read_csv(input_file), add_badge_columns_WW)
        Keep(row) == row.sale_price >= 500
    IN Cleaned(Map(SelectSeq(df, Keep), recompute_WW))

\* clean_paknsave.get_badge_type: the labels that ', '.join puts together
get_badge_type_PS(row) ==
    LET badges == (IF row.is_everyday_low THEN <<"EVERYDAY">> ELSE <<>>)
                  \o (IF row.is_extra_low THEN <<"EXTRA">> ELSE <<>>)
                  \o (IF row.is_super_deal THEN <<"SUPER">> ELSE <<>>)
    IN IF badges # <<>> THEN Some(badges) ELSE None

\* a clean_paknsave that gives a row with a badge ten percent off
recompute_PS_badge_discount(row) ==
    WithColumn(WithColumn(row, "badge_type", get_badge_type_PS(row)),
               "percent_off",
               IF IsNone(get_badge_type_PS(row)) THEN Frac(0, 10) ELSE Frac(100, 10))

\* clean_paknsave, RULES 2 and 3
recompute_PS(row) ==
    WithColumn(WithColumn(row, "badge_type", get_badge_type_PS(row)),
               "percent_off", Frac(0, 10))

\* clean_paknsave: with no row left, df.apply hands back the empty frame, which
\* cannot be stored as one column, and the script exits with an error
clean_paknsave(input_file) ==
    LET df == read_csv(input_file)
        Keep(row) == row.price >= 500
        kept == SelectSeq(df, Keep)
    IN IF kept = <<>> THEN CleanFailed ELSE Cleaned(Map(kept, recompute_PS))

junk_patterns == { <<"s", "p", "e", "c", "i", "a", "l", "s">>,
                   <<"c", "h", "r", "i", "s", "t", "m", "a", "s">>,
                   <<"h", "o", "u", "r", "s">>,
                   <<"c", "l", "o", "s", "e", "d">>,
                   <<"c", "o", "n", "t", "a", "c", "t">> }

\* clean_madbutcher.get_badge_type
get_badge_type_MB(row) == IF row.saving > 50 THEN Some("SALE") ELSE None

\* clean_madbutcher.calc_percent_off: from the saving the scraper stored
calc_percent_off(row) ==
    IF row.original_price > 0 /\ row.saving > 0
    THEN Frac(100 * row.saving, row.original_price)
    ELSE Frac(0, 10)

\* df.rename(columns={'sale_price': 'price'})
rename_price(row) ==
    IF "sale_price" \notin DOMAIN row THEN row
    ELSE [f \in (DOMAIN row \ {"sale_price"}) \cup {"price"} |->
             IF f = "price" THEN row.sale_price ELSE row[f]]

\* clean_madbutcher, RULES 3 to 5
recompute_MB(row) ==
    rename_price(WithColumn(WithColumn(row, "badge_type", get_badge_type_MB(row)),
                            "percent_off", calc_percent_off(row)))

\* clean_madbutcher, RULE 1: names that are long enough and hold no junk text
valid_name_MB(row) ==
    /\ Len(row.name) >= 10
    /\ ~\E pattern \in junk_patterns : Contains(lower(row.name), pattern)

\* clean_madbutcher, RULES 1 and 2: which rows stay
keep_MB(row) == valid_name_MB(row) /\ row.sale_price >= 50

\* clean_madbutcher: with no row left the summary divides by the row count
\* and the script exits with an error
clean_madbutcher(input_file) ==
    LET df == read_csv(input_file)
        kept == SelectSeq(df, keep_MB)
    IN IF kept = <<>> THEN CleanFailed ELSE Cleaned(Map(kept, recompute_MB))

\* the scraper's CSV file and the cleanup of a store
save_to_csv(store, products) ==
    to_csv(products, CASE store = "newworld" -> columns_NW
                       [] store = "paknsave" -> columns_PS
                       [] store = "woolworths" -> columns_WW
                       [] OTHER -> columns_MB)

cleanup(store, input_file) ==
    CASE store = "newworld" -> clean_newworld(input_file)
      [] store = "paknsave" -> clean_paknsave(input_file)
      [] store = "woolworths" -> clean_woolworths(input_file)
      [] OTHER -> clean_madbutcher(input_file)

recompute(store, row) ==
    CASE store = "newworld" -> recompute_NW(row)
      [] store = "paknsave" -> recompute_PS(row)
      [] store = "woolworths" -> recompute_WW(row)
      [] OTHER -> recompute_MB(row)

parse_product_card(store, card, now) ==
    CASE store = "newworld" -> parse_product_card_NW(card, now)
      [] store = "paknsave" -> parse_product_card_PS(card, now)
      [] store = "woolworths" -> parse_product_card_WW(card, now)
      [] OTHER -> parse_product_card_MB(card, now)

-----------------------------------------------------------------------------
(* Product cards: what the page holds for one product, as far as the       *)
(* scrapers read it.  `fault` names the browser call that raises, if any.  *)

\* bounds of the cards
MaxTokens == 2
MaxAmounts == 2

SeqsUpTo(S, n) == UNION {[1..k -> S] : k \in 0..n}
Optional(S) == {None} \cup {Some(x) : x \in S}

T_id == <<"4", "2">>
T_brandname == <<"P", "a", "m", "s">>

\* New World: a plain card, then the families that vary one part of it
Card_NW == [fault |-> "none", anchors |-> <<T_beef>>, headings |-> <<>>,
            name_elem |-> None,
            tokens |-> <<[d |-> 7, c |-> 99, hint |-> "ea"]>>,
            badge_at |-> 0, club_signal |-> "none", super_signal |-> "none",
            sku_attr |-> Some(T_id), brand_elem |-> None]

NameTexts_NW == {T_beef, T_lamb, T_cart, T_dollar, T_padded, T_empty}
Hints == {"ea", "kg", "perkg", "none"}
Amounts == {<<3, 50>>, <<22, 39>>}
Tokens_NW == {[d |-> a[1], c |-> a[2], hint |-> h] : a \in Amounts, h \in Hints}
                 \cup {[d |-> 0, c |-> 30, hint |-> "ea"],
                       [d |-> 2, c |-> 50, hint |-> "none"]}
Signals == {"none", "text", "img", "aria", "data", "class", "word"}
Faults_NW == {"inner_text", "name", "img", "aria", "data", "class", "sku", "brand"}

NameCards_NW ==
    {[Card_NW EXCEPT !.anchors = a, !.headings = h, !.name_elem = n] :
        a \in SeqsUpTo(NameTexts_NW, 1),
        h \in SeqsUpTo(NameTexts_NW, 1),
        n \in Optional(NameTexts_NW)}
PriceCards_NW ==
    UNION {{[Card_NW EXCEPT !.tokens = t, !.badge_at = b, !.club_signal = s] :
               b \in 0..Len(t), s \in {"none", "img"}} :
           t \in SeqsUpTo(Tokens_NW, MaxTokens)}
SignalCards_NW ==
    {[Card_NW EXCEPT !.fault = f, !.club_signal = s, !.super_signal = u,
                     !.brand_elem = b] :
        f \in Faults_NW \cup {"none"}, s \in Signals, u \in {"none", "text", "class"},
        b \in Optional({T_empty})}
Cards_NW == NameCards_NW \cup PriceCards_NW \cup SignalCards_NW

\* PAK'nSAVE
Card_PS == [fault |-> "none", anchors |-> <<T_beef>>, headings |-> <<>>,
            name_elem |-> None,
            tokens |-> <<[d |-> 7, c |-> 99, hint |-> "ea", dot |-> TRUE]>>,
            badge_svg |-> "none", badge_text |-> "none",
            sku_attr |-> Some(T_id), brand_elem |-> None]

Tokens_PS == {[d |-> 3, c |-> 79, hint |-> "ea", dot |-> TRUE],
              [d |-> 7, c |-> 50, hint |-> "ea", dot |-> FALSE],
              [d |-> 5, c |-> 0, hint |-> "kg", dot |-> TRUE],
              [d |-> 0, c |-> 50, hint |-> "ea", dot |-> TRUE],
              [d |-> 23, c |-> 49, hint |-> "perkg", dot |-> TRUE],
              [d |-> 23, c |-> 49, hint |-> "perkg", dot |-> FALSE],
              [d |-> 12, c |-> 0, hint |-> "none", dot |-> TRUE],
              [d |-> 12, c |-> 0, hint |-> "none", dot |-> FALSE]}
Faults_PS == {"inner_text", "name", "badge", "sku", "brand"}

NameCards_PS ==
    {[Card_PS EXCEPT !.anchors = a, !.headings = h, !.name_elem = n] :
        a \in SeqsUpTo(NameTexts_NW, 1),
        h \in SeqsUpTo(NameTexts_NW, 1),
        n \in Optional(NameTexts_NW)}
PriceCards_PS == {[Card_PS EXCEPT !.tokens = t] : t \in SeqsUpTo(Tokens_PS, MaxTokens)}
SignalCards_PS ==
    {[Card_PS EXCEPT !.fault = f, !.badge_svg = g, !.badge_text = x] :
        f \in Faults_PS \cup {"none"},
        g \in {"none", "4701", "6000", "other"},
        x \in {"none", "everyday", "extra", "super"}}
Cards_PS == NameCards_PS \cup PriceCards_PS \cup SignalCards_PS

\* Woolworths
Card_WW == [fault |-> "none", headings |-> <<T_beef>>, link |-> None,
            aria_label |-> None, title |-> None,
            dollars_cents |-> Some([dollars |-> Some(8), cents |-> Some(50)]),
            sel_prices |-> <<>>, text_prices |-> <<>>, was |-> None, strike |-> <<>>,
            sku_attr |-> Some(T_id), brand_elem |-> None]

NameTexts_WW == {T_beef, T_lamb, T_dollar, T_padded, T_digits}
DollarsCents == {[dollars |-> Some(8), cents |-> Some(50)],
                 [dollars |-> Some(8), cents |-> None],
                 [dollars |-> None, cents |-> Some(50)]}
SelPrices == {[price |-> 500, multibuy |-> FALSE], [price |-> 1000, multibuy |-> TRUE],
              [price |-> 60000, multibuy |-> FALSE]}
TextPrices == {[price |-> 450, multibuy |-> FALSE], [price |-> 1200, multibuy |-> TRUE],
               [price |-> 15000, multibuy |-> FALSE]}
Faults_WW == {"name", "price", "sku", "brand"}

NameCards_WW ==
    {[Card_WW EXCEPT !.headings = h, !.link = l, !.aria_label = a, !.title = t] :
        h \in SeqsUpTo(NameTexts_WW, 1),
        l \in Optional(SeqsUpTo(NameTexts_WW, 1)),
        a \in Optional(NameTexts_WW), t \in Optional(NameTexts_WW)}
PriceCards_WW ==
    {[Card_WW EXCEPT !.dollars_cents = dc, !.sel_prices = sp, !.text_prices = tp,
                     !.was = w, !.strike = st] :
        dc \in Optional(DollarsCents), sp \in SeqsUpTo(SelPrices, 1),
        tp \in SeqsUpTo(TextPrices, MaxTokens),
        w \in Optional({0, 450, 700}), st \in SeqsUpTo({900}, 1)}
SignalCards_WW ==
    {[Card_WW EXCEPT !.fault = f, !.brand_elem = b, !.headings = <<h>>] :
        f \in Faults_WW \cup {"none"}, b \in Optional({T_brandname}),
        h \in {T_beef, <<"W">> \o Tail(T_woolworths) \o <<" ">> \o T_steak}}
Cards_WW == NameCards_WW \cup PriceCards_WW \cup SignalCards_WW

\* Mad Butcher
PT_7 == <<"$", "7", ".", "0", "0">>
PT_5 == <<"$", "5", ".", "0", "0">>
PT_low == <<"$", "0", ".", "4", "0">>
PT_call == <<"C", "a", "l", "l">>
PT_9 == <<"$", "9", ".", "9", "9">>
T_perkg == <<"p", "e", "r", " ", "k", "g">>

Card_MB == [fault |-> "none", title_elem |-> Some(T_beef), link |-> None,
            anchors |-> <<>>,
            amounts |-> <<[kind |-> "plain", text |-> PT_7]>>, price_box |-> TRUE,
            extra |-> <<>>, sku_attr |-> Some(T_id)]

NameTexts_MB == {T_beef, T_lamb, T_specials, T_hours, T_padded, T_dollar, T_cart}
AmountElems == {[kind |-> k, text |-> t] : k \in {"ins", "del"}, t \in {PT_7, PT_5}}
                   \cup {[kind |-> "plain", text |-> t] : t \in {PT_7, PT_low, PT_call}}
                   \cup {[kind |-> "del", text |-> PT_call]}
Faults_MB == {"text", "name", "price", "sku"}

NameCards_MB ==
    {[Card_MB EXCEPT !.title_elem = t, !.link = l, !.anchors = a] :
        t \in Optional(NameTexts_MB),
        l \in Optional(SeqsUpTo(NameTexts_MB, 1)),
        a \in SeqsUpTo(NameTexts_MB, 1)}
PriceCards_MB ==
    {[Card_MB EXCEPT !.amounts = a, !.price_box = b, !.extra = x] :
        a \in SeqsUpTo(AmountElems, MaxAmounts), b \in BOOLEAN,
        x \in {<<>>, T_perkg, PT_9}}
SignalCards_MB ==
    {[Card_MB EXCEPT !.fault = f, !.sku_attr = s] :
        f \in Faults_MB \cup {"none"}, s \in Optional({T_id})}
Cards_MB == NameCards_MB \cup PriceCards_MB \cup SignalCards_MB

Cards(store) ==
    CASE store = "newworld" -> Cards_NW
      [] store = "paknsave" -> Cards_PS
      [] store = "woolworths" -> Cards_WW
      [] OTHER -> Cards_MB

-----------------------------------------------------------------------------
(* State *)

VARIABLES
    store,          \* the store a scraper and its cleanup run for
    pc,             \* where the run stands
    clock,          \* datetime.now(), as a tick
    card,           \* the card in hand
    parsed,         \* what parse_product_card returned for it
    products,       \* self.products of the scraper
    csv_file,       \* the rows of the scraper's CSV file
    cleaned,        \* the outcome of the cleanup script
    again,          \* the cleaned rows after the recompute step ran once more
    page_num,       \* scrape_all: the page being fetched
    product_cards,  \* scrape_page: the cards of the page
    idx,            \* scrape_page: the card the loop is at
    page_products,  \* scrape_page: the products of the page so far
    fetched,        \* the page numbers page.goto was called for, in order
    collected,      \* the products of every page that was added, in order
    outcomes,       \* what parse_product_card did for each card of the page
    failed_at,      \* the page whose fetch failed, 0 if none
    site,           \* the site scraped: "short", with no card after its first
                    \* MaxPages pages, or "long", with a card on every page
    files,          \* the latest cleaned file of each store, if there is one
    master,         \* the master CSV file, once written
    folder,         \* whether the files have been moved to the dated folder
    api,            \* api/latest, once written
    pushed,         \* what has been pushed to the remote repository
    phases,         \* the phases of main() that ran after the cleanup, in order
    directory,      \* the working directory: the CSV files in it, by name
    stage,          \* how far each store's scraper and cleanup have come
    scraped,        \* the products each store's scraper collects
    run,            \* the daily pipeline: the number of the run of main()
    step,           \* main(): the script of its lists it is at
    started,        \* main(): the time the run started
    log,            \* main(): the scripts run_script ran in this run, and how
    input_file      \* the input file each cleanup script of this run chose

vars == <<store, pc, clock, card, parsed, products, csv_file, cleaned, again,
          page_num, product_cards, idx, page_products, fetched, collected,
          outcomes, failed_at, site, files, master, folder, api, pushed, phases,
          directory, stage, scraped, run, step, started, log, input_file>>

card_vars == <<card, parsed, csv_file, cleaned, again>>
scrape_vars == <<page_num, product_cards, idx, page_products, fetched, collected,
                 outcomes, failed_at, site>>
aggregate_vars == <<files, master, folder, api, pushed, phases>>
daily_vars == <<run, step, started, log, input_file>>
pipeline_vars == <<directory, stage, scraped, daily_vars>>

\* the parts of the state a run does not use
NoCard == card = None /\ parsed = NoneR /\ again = <<>>
NoCleanup == csv_file = <<>> /\ cleaned = CleanFailed
NoPages ==
    /\ page_num = 1 /\ product_cards = <<>> /\ idx = 1 /\ page_products = <<>>
    /\ fetched = <<>> /\ collected = <<>> /\ outcomes = <<>> /\ failed_at = 0
NoScrape == NoPages /\ site = "short"
NoAggregate ==
    /\ files = <<>> /\ master = None /\ folder = FALSE /\ api = None /\ pushed = None
    /\ phases = <<>>
NoDaily == run = 0 /\ step = 0 /\ started = 0 /\ log = <<>> /\ input_file = <<>>
NoPipeline == directory = {} /\ stage = <<>> /\ scraped = <<>> /\ NoDaily

-----------------------------------------------------------------------------
(* One card through a store's scraper and cleanup *)

\* scrape_page, the body of its loop: a product with a name is appended
AppendProduct(list, product) ==
    IF product.kind = "ok" /\ product.val.name # <<>> THEN Append(list, product.val)
    ELSE list

InitCard ==
    /\ store \in Stores
    /\ card \in Cards(store)
    /\ pc = "parse"
    /\ clock = 1
    /\ parsed = NoneR
    /\ again = <<>>
    /\ products = <<>>
    /\ NoCleanup /\ NoScrape /\ NoAggregate /\ NoPipeline

\* parse_product_card on the card, and the loop body of scrape_page around it
ParseCard ==
    /\ pc = "parse"
    /\ parsed' = parse_product_card(store, card, clock)
    /\ products' = AppendProduct(products, parsed')
    /\ clock' = clock + 1
    /\ pc' = "main"
    /\ UNCHANGED <<store, card, csv_file, cleaned, again, scrape_vars, aggregate_vars, pipeline_vars>>

\* main() of a scraper: the products are saved ...
SaveCsv ==
    /\ pc = "main"
    /\ products # <<>>
    /\ csv_file' = save_to_csv(store, products)
    /\ pc' = "clean"
    /\ UNCHANGED <<store, clock, card, parsed, products, cleaned, again,
                   scrape_vars, aggregate_vars, pipeline_vars>>

\* ... unless there are none, which is logged
NoProducts ==
    /\ pc = "main"
    /\ products = <<>>
    /\ pc' = "stop"
    /\ UNCHANGED <<store, clock, card_vars, products, scrape_vars, aggregate_vars, pipeline_vars>>

\* the store's cleanup script on the file
Cleanup ==
    /\ pc = "clean"
    /\ cleaned' = cleanup(store, csv_file)
    /\ pc' = "cleaned"
    /\ UNCHANGED <<store, clock, card, parsed, products, csv_file, again,
                   scrape_vars, aggregate_vars, pipeline_vars>>

\* the recompute step of the cleanup, applied to the cleaned rows once more
RecomputeAgain ==
    /\ pc = "cleaned"
    /\ cleaned.status = "ok"
    /\ again' = [i \in 1..Len(cleaned.rows) |-> recompute(store, cleaned.rows[i])]
    /\ pc' = "recomputed"
    /\ UNCHANGED <<store, clock, card, parsed, products, csv_file, cleaned,
                   scrape_vars, aggregate_vars, pipeline_vars>>

NextCard == ParseCard \/ SaveCsv \/ NoProducts \/ Cleanup \/ RecomputeAgain

SpecCard == InitCard /\ [][NextCard]_vars

-----------------------------------------------------------------------------
(* Properties of one card's run *)

\* the sale price of a row, whichever column holds it
SalePrice(row) == IF "sale_price" \in DOMAIN row THEN row.sale_price ELSE row.price

\* the card has been through parse_product_card and gave a record
Emitted == pc # "parse" /\ parsed.kind = "ok"

\* the cleanup has run and kept rows
Retained == pc \in {"cleaned", "recomputed"} /\ cleaned.status = "ok"

\* C2: every record that parse_product_card of the New World, Woolworths and
\* Mad Butcher scrapers emits has original_price >= sale_price and
\* saving >= 0, also when the struck-through or "was" price is the lower one.
C2_SavingNeverNegative ==
    (Emitted /\ store \in {"newworld", "woolworths", "madbutcher"}) =>
        /\ parsed.val.original_price >= parsed.val.sale_price
        /\ parsed.val.saving >= 0

\* C3: no record of unit type "ea" has as its sale price a value the card
\* shows only as a per-kilogram reference, with or without a labelled unit
\* token and however many per-kilogram references the card has.
C3_EachPriceIsNoPerKgReference ==
    (Emitted /\ store \in {"newworld", "paknsave"} /\ parsed.val.unit_type = "ea") =>
        \A i \in 1..Len(card.tokens) :
            (IsPerKg(card.tokens[i]) /\ Price(card.tokens[i]) = SalePrice(parsed.val)) =>
                \E j \in 1..Len(card.tokens) :
                    /\ ~IsPerKg(card.tokens[j])
                    /\ Price(card.tokens[j]) = SalePrice(parsed.val)

\* C4: after the cleanup of New World, Woolworths or Mad Butcher every row
\* that is kept has saving = round(original_price - sale_price, 2) and
\* percent_off = round(saving / original_price * 100, 1) when original_price
\* is positive, 0 otherwise.
C4_CleanedSavingAndPercent ==
    (Retained /\ store \in {"newworld", "woolworths", "madbutcher"}) =>
        \A i \in 1..Len(cleaned.rows) :
            LET row == cleaned.rows[i]
            IN /\ row.saving = Round2(row.original_price - SalePrice(row))
               /\ IF row.original_price > 0
                  THEN FracEq(row.percent_off,
                              Frac(RoundTenths(100 * row.saving, row.original_price), 10))
                  ELSE FracEq(row.percent_off, Frac(0, 10))

\* C5: the recompute step of a cleanup is idempotent: applied once more to
\* the rows it has produced, it leaves saving and percent_off of every row as
\* they are.
C5_RecomputeIdempotent ==
    pc = "recomputed" =>
        /\ Len(again) = Len(cleaned.rows)
        /\ \A i \in 1..Len(again) :
              /\ again[i].saving = cleaned.rows[i].saving
              /\ FracEq(again[i].percent_off, cleaned.rows[i].percent_off)

\* C5, its case: New World rows with a saving have been recomputed twice
C5_Witness ==
    /\ pc = "recomputed" /\ store = "newworld"
    /\ again # <<>> /\ again[1].saving > 0 /\ again[1].percent_off.n > 0

\* the minimum sale price the cleanup of a store is stated to apply, in cents
StatedMinimum(s) ==
    CASE s = "newworld" -> 350
      [] s = "paknsave" -> 500
      [] s = "woolworths" -> 500
      [] OTHER -> 50

\* the row of the scraper's file is among the cleaned rows
Kept(row) == \E j \in 1..Len(cleaned.rows) : cleaned.rows[j].scraped_at = row.scraped_at

MinNameLength(s) ==
    CASE s = "woolworths" -> 10
      [] s = "madbutcher" -> 10
      [] OTHER -> 6

\* the texts the name rules of a store turn away as boilerplate
Boilerplate(s, name) ==
    CASE s = "madbutcher" ->
             \/ \E phrase \in invalid_phrases : Contains(lower(name), phrase)
             \/ \E pattern \in junk_patterns : Contains(lower(name), pattern)
      [] s = "woolworths" -> FALSE
      [] OTHER -> \E word \in skip_words : Contains(lower(name), word)

\* C7: every row kept after extraction and cleanup has a name that does not
\* start with a currency symbol, is not boilerplate and has the store's
\* minimum length, whichever name strategy gave it.
C7_KeptNamesAreClean ==
    Retained =>
        \A i \in 1..Len(cleaned.rows) :
            LET name == cleaned.rows[i].name
            IN /\ ~startswith(name, "$")
               /\ ~Boilerplate(store, name)
               /\ Len(name) >= MinNameLength(store)

-----------------------------------------------------------------------------
(* A scraper's run over the pages of a store: scrape_all, scrape_page, main *)

\* bounds of the site: pages that hold products, cards on a page
MaxPages == 2
MaxCards == 2

\* a scrape_all whose page limit is out of reach
max_pages_unlimited(s) == 1000

\* max_pages of scrape_all
max_pages(s) == IF s = "madbutcher" THEN 20 ELSE 100

\* the cards a page can hold: one that parses, one without a price, one whose
\* name lookup raises
PageCards(s) ==
    CASE s = "newworld" ->
             {Card_NW, [Card_NW EXCEPT !.tokens = <<>>], [Card_NW EXCEPT !.fault = "name"]}
      [] s = "paknsave" ->
             {Card_PS, [Card_PS EXCEPT !.tokens = <<>>], [Card_PS EXCEPT !.fault = "name"]}
      [] s = "woolworths" ->
             {Card_WW, [Card_WW EXCEPT !.dollars_cents = None],
              [Card_WW EXCEPT !.fault = "name"]}
      [] OTHER ->
             {Card_MB, [Card_MB EXCEPT !.amounts = <<>>], [Card_MB EXCEPT !.fault = "name"]}

\* what a page of the site can hold
PageContents(s, n) == IF n <= MaxPages THEN SeqsUpTo(PageCards(s), MaxCards) ELSE {<<>>}

\* the plain card of a store
plain_card(s) ==
    CASE s = "newworld" -> Card_NW [] s = "paknsave" -> Card_PS
      [] s = "woolworths" -> Card_WW [] OTHER -> Card_MB

\* what page n of a site holds: on a long site every page holds the plain card
SitePages(kind, s, n) ==
    IF kind = "long" THEN {<<plain_card(s)>>} ELSE PageContents(s, n)

\* the try block of parse_product_card of a store
parse_body(s, c, now) ==
    CASE s = "newworld" -> parse_body_NW(c, now)
      [] s = "paknsave" -> parse_body_PS(c, now)
      [] s = "woolworths" -> parse_body_WW(c, now)
      [] OTHER -> parse_body_MB(c, now)

RECURSIVE Flatten(_)
Flatten(lists) == IF lists = <<>> THEN <<>> ELSE Head(lists) \o Flatten(Tail(lists))

InitScrape ==
    /\ store \in Stores
    /\ pc = "fetch"
    /\ clock = 1
    /\ products = <<>>
    /\ NoCard /\ NoCleanup /\ NoPages /\ NoAggregate /\ NoPipeline
    /\ site \in {"short", "long"}

\* scrape_all: page.goto succeeds and scrape_page finds the cards of the page
FetchPage ==
    /\ pc = "fetch"
    /\ \E found \in SitePages(site, store, page_num) : product_cards' = found
    /\ fetched' = Append(fetched, page_num)
    /\ idx' = 1
    /\ page_products' = <<>>
    /\ outcomes' = <<>>
    /\ pc' = "cards"
    /\ UNCHANGED <<store, clock, card_vars, products, page_num, collected, failed_at,
                   site,
                   aggregate_vars, pipeline_vars>>

\* a scrape_all whose except clause goes on with the next page
FetchFails_continues ==
    /\ pc = "fetch"
    /\ page_num < MaxPages + 1
    /\ fetched' = Append(fetched, page_num)
    /\ failed_at' = page_num
    /\ page_num' = page_num + 1
    /\ UNCHANGED <<store, pc, clock, card_vars, products, product_cards, idx,
                   page_products, collected, outcomes, site,
                   aggregate_vars, pipeline_vars>>

\* scrape_all: page.goto raises; the except clause logs and leaves the loop
FetchFails ==
    /\ pc = "fetch"
    /\ fetched' = Append(fetched, page_num)
    /\ failed_at' = page_num
    /\ pc' = "main"
    /\ UNCHANGED <<store, clock, card_vars, products, page_num, product_cards, idx,
                   page_products, collected, outcomes, site,
                   aggregate_vars, pipeline_vars>>

\* scrape_page: one turn of the loop over the cards; an exception of the
\* turn is logged and the loop goes on
ScrapeCard ==
    /\ pc = "cards"
    /\ idx <= Len(product_cards)
    /\ card' = product_cards[idx]
    /\ parsed' = parse_product_card(store, card', clock)
    /\ page_products' = AppendProduct(page_products, parsed')
    /\ outcomes' = Append(outcomes, parsed'.kind)
    /\ idx' = idx + 1
    /\ clock' = clock + 1
    /\ UNCHANGED <<store, pc, products, csv_file, cleaned, again, page_num,
                   product_cards, fetched, collected, failed_at, site,
                   aggregate_vars, pipeline_vars>>

\* a scrape_all that keeps the products of the last page only
EndPage_replacing ==
    /\ pc = "cards"
    /\ idx > Len(product_cards)
    /\ IF page_products = <<>>
       THEN /\ pc' = "main"
            /\ UNCHANGED <<products, collected, page_num>>
       ELSE /\ products' = page_products
            /\ collected' = Append(collected, page_products)
            /\ page_num' = page_num + 1
            /\ pc' = IF page_num + 1 <= max_pages(store) THEN "fetch" ELSE "main"
    /\ UNCHANGED <<store, clock, card_vars, product_cards, idx, page_products, fetched,
                   outcomes, failed_at, site,
                   aggregate_vars, pipeline_vars>>

\* scrape_all: scrape_page has returned; a page without products ends the
\* loop, any other is added and the next page is due
EndPage ==
    /\ pc = "cards"
    /\ idx > Len(product_cards)
    /\ IF page_products = <<>>
       THEN /\ pc' = "main"
            /\ UNCHANGED <<products, collected, page_num>>
       ELSE /\ products' = products \o page_products
            /\ collected' = Append(collected, page_products)
            /\ page_num' = page_num + 1
            /\ pc' = IF page_num + 1 <= max_pages(store) THEN "fetch" ELSE "main"
    /\ UNCHANGED <<store, clock, card_vars, product_cards, idx, page_products, fetched,
                   outcomes, failed_at, site,
                   aggregate_vars, pipeline_vars>>

NextScrape ==
    FetchPage \/ FetchFails \/ ScrapeCard \/ EndPage \/ SaveCsv \/ NoProducts \/ Cleanup

SpecScrape == InitScrape /\ [][NextScrape]_vars

-----------------------------------------------------------------------------
(* Properties of a scraper's run *)

\* the records of the cards 1..n of the page that the try block of
\* parse_product_card gets through, in card order (card i is parsed idx - i
\* ticks before the present one)
RECURSIVE ParsedUpTo(_)
ParsedUpTo(n) ==
    IF n = 0 THEN <<>>
    ELSE LET r == parse_body(store, product_cards[n], clock - idx + n)
         IN IF r.kind = "ok" THEN Append(ParsedUpTo(n - 1), r.val) ELSE ParsedUpTo(n - 1)

\* C8: a card's failure stays with the card: for a card whose name or price
\* extraction fails or raises parse_product_card gives none and raises
\* nothing, the loop of scrape_page reaches every later card, and the
\* products of the page are the records of exactly the cards that parsed.
C8_CardFailureStaysWithTheCard ==
    pc = "cards" =>
        /\ Len(outcomes) = idx - 1
        /\ \A i \in 1..Len(outcomes) :
              /\ outcomes[i] \in {"ok", "none"}
              /\ outcomes[i] = "ok" <=>
                     parse_body(store, product_cards[i], clock - idx + i).kind = "ok"
        /\ page_products = ParsedUpTo(idx - 1)

\* C8, its case: the first card of a page raised, the second one parsed, and
\* the page's products are the second card's record alone
C8_Witness ==
    /\ pc = "cards" /\ Len(product_cards) = 2 /\ idx = 3
    /\ product_cards[1].fault = "name"
    /\ outcomes = <<"none", "ok">>
    /\ Len(page_products) = 1 /\ page_products[1].scraped_at = clock - 1

\* C9: when the fetch of page k fails, the pages fetched are 1..k and no
\* other, the loop is over, and the products are those of the pages 1..k-1
\* as they were added, none lost or changed.
C9_FetchFailureEndsPagination ==
    failed_at > 0 =>
        /\ pc \notin {"fetch", "cards"}
        /\ fetched = [i \in 1..failed_at |-> i]
        /\ Len(collected) = failed_at - 1
        /\ products = Flatten(collected)

\* C9, its case: page 1 gave products and the fetch of page 2 failed
C9_Witness ==
    /\ failed_at = 2 /\ pc = "main"
    /\ products # <<>> /\ products = collected[1]

-----------------------------------------------------------------------------
(* The daily run after the cleanup: combine_csvs, organize_files,          *)
(* create_api_files, auto_upload_to_github                                 *)

\* bound of a cleaned batch
MaxBatch == 2

\* combine_csvs: the row of the master file for a row of a store's cleaned file
project_NW(nw) ==
    [store |-> "New World", name |-> nw.name, brand |-> nw.brand,
     price |-> nw.sale_price, original_price |-> nw.original_price,
     price_per_kg |-> nw.price_per_kg, unit_type |-> nw.unit_type,
     saving |-> nw.saving, percent_off |-> nw.percent_off,
     deal_type |-> IF nw.is_club_deal THEN Some("Club Deal")
                   ELSE IF nw.is_super_saver THEN Some("Super Saver") ELSE None,
     scraped_at |-> nw.scraped_at]

project_PS(ps) ==
    [store |-> "PAK'nSAVE", name |-> ps.name, brand |-> ps.brand,
     price |-> ps.price,
     original_price |-> IF "promo_price" \in DOMAIN ps THEN ps.promo_price ELSE ps.price,
     price_per_kg |-> ps.price_per_kg, unit_type |-> ps.unit_type,
     saving |-> IF "saving" \in DOMAIN ps THEN ps.saving ELSE 0,
     percent_off |-> IF "percent_off" \in DOMAIN ps THEN ps.percent_off ELSE Frac(0, 10),
     deal_type |-> IF "badge_type" \in DOMAIN ps THEN ps.badge_type ELSE None,
     scraped_at |-> ps.scraped_at]

project_WW(ww) ==
    [store |-> "Woolworths", name |-> ww.name, brand |-> ww.brand,
     price |-> ww.sale_price, original_price |-> ww.original_price,
     price_per_kg |-> None, unit_type |-> "ea",
     saving |-> ww.saving, percent_off |-> ww.percent_off,
     deal_type |-> IF ww.is_club_price THEN Some("Club Price")
                   ELSE IF ww.is_on_special THEN Some("On Special") ELSE None,
     scraped_at |-> ww.scraped_at]

project_MB(mb) ==
    [store |-> "Mad Butcher", name |-> mb.name, brand |-> mb.brand,
     price |-> mb.price, original_price |-> mb.original_price,
     price_per_kg |-> mb.price_per_kg, unit_type |-> mb.unit_type,
     saving |-> mb.saving, percent_off |-> mb.percent_off,
     deal_type |-> IF "badge_type" \in DOMAIN mb THEN mb.badge_type ELSE None,
     scraped_at |-> mb.scraped_at]

\* pd.concat(dfs, ignore_index=True) of the four frames
concat(dir) ==
    Map(read_csv(Val(dir.newworld)), project_NW)
    \o Map(read_csv(Val(dir.paknsave)), project_PS)
    \o Map(read_csv(Val(dir.woolworths)), project_WW)
    \o Map(read_csv(Val(dir.madbutcher)), project_MB)

\* the outcome of combine_csvs: the master file it wrote, or the exception
Combined(rows) == [status |-> "ok", rows |-> rows]
CombineRaised == [status |-> "raised", rows |-> <<>>]

\* the rows of a frame without those equal to an earlier row
RECURSIVE drop_duplicates(_)
drop_duplicates(rows) ==
    IF rows = <<>> THEN <<>>
    ELSE LET n == Len(rows)
             front == drop_duplicates(SubSeq(rows, 1, n - 1))
         IN IF \E i \in 1..(n - 1) : rows[i] = rows[n] THEN front
            ELSE Append(front, rows[n])

\* a combine_csvs that drops repeated rows of the combined frame
combine_csvs_deduplicating(dir) ==
    IF \E s \in Stores : IsNone(dir[s]) THEN CombineRaised
    ELSE Combined(drop_duplicates(concat(dir)))

\* a combine_csvs that leaves out the stores without a cleaned file
combine_csvs_skipping(dir) ==
    Combined((IF IsNone(dir.newworld) THEN <<>>
              ELSE Map(read_csv(Val(dir.newworld)), project_NW))
             \o (IF IsNone(dir.paknsave) THEN <<>>
                 ELSE Map(read_csv(Val(dir.paknsave)), project_PS))
             \o (IF IsNone(dir.woolworths) THEN <<>>
                 ELSE Map(read_csv(Val(dir.woolworths)), project_WW))
             \o (IF IsNone(dir.madbutcher) THEN <<>>
                 ELSE Map(read_csv(Val(dir.madbutcher)), project_MB)))

\* combine_csvs: sorted(glob(...))[-1] raises IndexError for a store without a
\* cleaned file, before any file is read or written
combine_csvs(dir) ==
    IF \E s \in Stores : IsNone(dir[s]) THEN CombineRaised
    ELSE Combined(concat(dir))

\* the cleaned row a card ends up as
CleanedRowOf(s, c) ==
    cleanup(s, save_to_csv(s, <<parse_product_card(s, c, 1).val>>)).rows[1]

\* the cards the rows of the cleaned batches come from
BatchCards(s) ==
    CASE s = "newworld" ->
             {Card_NW,
              [Card_NW EXCEPT !.tokens = <<[d |-> 22, c |-> 39, hint |-> "ea"],
                                           [d |-> 3, c |-> 50, hint |-> "none"]>>,
                              !.badge_at = 2]}
      [] s = "paknsave" -> {[Card_PS EXCEPT !.badge_text = "extra"]}
      [] s = "woolworths" -> {Card_WW, [Card_WW EXCEPT !.strike = <<900>>]}
      [] OTHER -> {Card_MB}

\* the rows the cleaned batches are made of
CleanedRows(s) == {CleanedRowOf(s, c) : c \in BatchCards(s)}

\* the cleaned file of a store: none, or a batch of the rows
CleanedFiles(rows) == Optional(SeqsUpTo(rows, MaxBatch))

InitAggregate ==
    /\ store = "all"
    /\ pc = "combine"
    /\ clock = 1
    /\ products = <<>>
    /\ NoCard /\ NoCleanup /\ NoScrape /\ NoPipeline
    /\ \E rows \in {[s \in Stores |-> CleanedRows(s)]} :
          files \in [newworld : CleanedFiles(rows["newworld"]),
                     paknsave : CleanedFiles(rows["paknsave"]),
                     woolworths : CleanedFiles(rows["woolworths"]),
                     madbutcher : CleanedFiles(rows["madbutcher"])]
    /\ master = None /\ folder = FALSE /\ api = None /\ pushed = None /\ phases = <<>>

not_aggregate_vars == <<store, clock, products, card_vars, scrape_vars, pipeline_vars>>

\* main(), phase 3: combine_csvs; its exception is not caught and ends main()
Combine ==
    /\ pc = "combine"
    /\ \E result \in {combine_csvs(files)} :
          IF result.status = "raised"
          THEN /\ pc' = "crashed"
               /\ UNCHANGED <<master, phases>>
          ELSE /\ master' = Some(result.rows)
               /\ phases' = Append(phases, "combine")
               /\ pc' = "organize"
    /\ UNCHANGED <<not_aggregate_vars, files, folder, api, pushed>>

\* main(), phase 4: organize_files moves the files of the run to the dated folder
Organize ==
    /\ pc = "organize"
    /\ folder' = TRUE
    /\ phases' = Append(phases, "organize")
    /\ pc' = "api"
    /\ UNCHANGED <<not_aggregate_vars, files, master, api, pushed>>

\* the store labels of a frame: df['store'].unique()
unique_stores(df) == {df[i].store : i \in 1..Len(df)}

\* len(df[df['store'] == store])
count_store(df, label) == Cardinality({i \in 1..Len(df) : df[i].store = label})

\* a create_api_files whose count mapping names all four stores
create_api_files_all_stores(df) ==
    [total_products |-> Len(df),
     stores |-> [label \in {"New World", "PAK'nSAVE", "Woolworths", "Mad Butcher"} |->
                    count_store(df, label)],
     products |-> df]

\* create_api_files: api_data of api/latest.json, without its timestamp
create_api_files(df) ==
    [total_products |-> Len(df),
     stores |-> [label \in unique_stores(df) |-> count_store(df, label)],
     products |-> df]

\* main(), phase 5: create_api_files reads the master file and writes api/latest
CreateApi ==
    /\ pc = "api"
    /\ api' = Some(create_api_files(Val(master)))
    /\ phases' = Append(phases, "api")
    /\ pc' = "upload"
    /\ UNCHANGED <<not_aggregate_vars, files, master, folder, pushed>>

\* main(), phase 6: auto_upload_to_github pushes api/, unless there is no
\* repository or a git command fails, which is reported and nothing more
Upload ==
    /\ pc = "upload"
    /\ \E outcome \in {"pushed", "no_repo", "failed"} :
          pushed' = IF outcome = "pushed" THEN api ELSE pushed
    /\ phases' = Append(phases, "upload")
    /\ pc' = "finished"
    /\ UNCHANGED <<not_aggregate_vars, files, master, folder, api>>

NextAggregate == Combine \/ Organize \/ CreateApi \/ Upload

SpecAggregate == InitAggregate /\ [][NextAggregate]_vars

-----------------------------------------------------------------------------
(* Properties of the aggregation *)

\* a row of the master file is the given row of a cleaned batch, under the label
SameRecord(out, row, label) ==
    /\ out.store = label
    /\ out.name = row.name
    /\ out.scraped_at = row.scraped_at
    /\ out.price = SalePrice(row)
    /\ out.saving = row.saving
    /\ FracEq(out.percent_off, row.percent_off)

\* C1: from cleaned batches of n1, n2, n3 and n4 rows combine_csvs makes a
\* master file of n1 + n2 + n3 + n4 rows: the New World rows, then the
\* PAK'nSAVE, the Woolworths and the Mad Butcher rows, each batch in its own
\* order and under its store's label, no row dropped, repeated or moved.
C1_MasterIsTheBatchesInOrder ==
    pc \in {"organize", "api", "upload", "finished"} =>
        /\ ~IsNone(master)
        /\ LET m == Val(master)
               nw == Val(files.newworld)
               ps == Val(files.paknsave)
               ww == Val(files.woolworths)
               mb == Val(files.madbutcher)
           IN /\ Len(m) = Len(nw) + Len(ps) + Len(ww) + Len(mb)
              /\ \A i \in 1..Len(nw) : SameRecord(m[i], nw[i], "New World")
              /\ \A i \in 1..Len(ps) : SameRecord(m[Len(nw) + i], ps[i], "PAK'nSAVE")
              /\ \A i \in 1..Len(ww) :
                    SameRecord(m[Len(nw) + Len(ps) + i], ww[i], "Woolworths")
              /\ \A i \in 1..Len(mb) :
                    SameRecord(m[Len(nw) + Len(ps) + Len(ww) + i], mb[i], "Mad Butcher")

\* C1, its case: four batches, two of them with a repeated row, were combined
C1_Witness ==
    /\ pc = "organize"
    /\ \A s \in Stores : ~IsNone(files[s]) /\ Val(files[s]) # <<>>
    /\ Len(Val(files.newworld)) = 2 /\ Len(Val(files.madbutcher)) = 2
    /\ Val(files.madbutcher)[1] = Val(files.madbutcher)[2]
    /\ Len(Val(master)) >= 6

\* C10: when the cleaned batch of a store is missing as the aggregation
\* starts, combine_csvs fails before a master file is written and none of
\* organize_files, create_api_files and the upload runs: nothing is written
\* or published.
C10_MissingBatchStopsTheRun ==
    (pc # "combine" /\ \E s \in Stores : IsNone(files[s])) =>
        /\ pc = "crashed"
        /\ master = None /\ folder = FALSE /\ api = None /\ pushed = None
        /\ phases = <<>>

\* C10, its case: the Mad Butcher batch alone was missing and the run ended
\* in combine_csvs
C10_Witness ==
    /\ pc = "crashed"
    /\ IsNone(files.madbutcher)
    /\ \A s \in Stores \ {"madbutcher"} : ~IsNone(files[s]) /\ Val(files[s]) # <<>>
    /\ master = None /\ phases = <<>>

-----------------------------------------------------------------------------
(* Further properties of one card's run *)

\* C11: after the cleanup of any store every row that is kept has saving >= 0
\* and 0 <= percent_off <= 100, also a row whose original_price is lower than
\* its sale price.
C11_CleanedSavingAndPercentInRange ==
    Retained =>
        \A i \in 1..Len(cleaned.rows) :
            LET row == cleaned.rows[i]
            IN /\ row.saving >= 0
               /\ row.percent_off.n >= 0
               /\ row.percent_off.n <= 100 * row.percent_off.d

-----------------------------------------------------------------------------
(* Further properties of the aggregation *)

\* the master file has been written
MasterWritten == pc \in {"organize", "api", "upload", "finished"}

\* the rows of the four cleaned files in the order combine_csvs reads them
SourceRows ==
    Val(files.newworld) \o Val(files.paknsave) \o Val(files.woolworths)
    \o Val(files.madbutcher)

\* the identifier of a cleaned row: product_id for PAK'nSAVE, sku otherwise
SourceId(row) == IF "product_id" \in DOMAIN row THEN row.product_id ELSE row.sku

\* the twelve fields of the canonical schema
CanonicalFields ==
    {"store", "sku", "name", "brand", "price", "original_price", "price_per_kg",
     "unit_type", "saving", "percent_off", "deal_type", "scraped_at"}

\* C12: every row of the master file has the twelve fields of the canonical
\* schema, sku among them, and its sku is the identifier of the cleaned row it
\* comes from (sku, or product_id for PAK'nSAVE).
C12_MasterHasTheCanonicalFields ==
    MasterWritten =>
        \A i \in 1..Len(Val(master)) :
            /\ CanonicalFields \subseteq DOMAIN Val(master)[i]
            /\ Val(master)[i].sku = SourceId(SourceRows[i])

-----------------------------------------------------------------------------
(* A retained record from the scraper to the master file *)

\* the master rows combine_csvs makes of a store's cleaned batch when the
\* other stores' cleaned files hold no row
MasterOf(s, rows) ==
    combine_csvs([t \in Stores |-> IF t = s THEN Some(rows) ELSE Some(<<>>)]).rows

\* the record the scraper emitted for a cleaned row
EmittedFor(row) ==
    products[CHOOSE j \in 1..Len(products) : products[j].scraped_at = row.scraped_at]

\* the fields of a record that only the scraper sets
BuilderFields == {"name", "original_price", "price_per_kg", "unit_type", "scraped_at"}

\* the record has the emitted record's value in every such field the emitted
\* record has, and its sale price
SameAsEmitted(rec, emitted) ==
    /\ \A f \in BuilderFields \cap DOMAIN emitted : f \in DOMAIN rec /\ rec[f] = emitted[f]
    /\ SalePrice(rec) = SalePrice(emitted)

\* C13: cleanup and aggregation leave name, sale price, original_price,
\* price_per_kg, unit_type and scraped_at of every retained record as the
\* scraper emitted them, in the cleaned row and in the master row alike.
C13_CleanupAndMergeKeepTheRecord ==
    Retained =>
        /\ Len(MasterOf(store, cleaned.rows)) = Len(cleaned.rows)
        /\ \A i \in 1..Len(cleaned.rows) :
              /\ SameAsEmitted(cleaned.rows[i], EmittedFor(cleaned.rows[i]))
              /\ SameAsEmitted(MasterOf(store, cleaned.rows)[i], EmittedFor(cleaned.rows[i]))

\* C13, its case: a Woolworths record whose "was" price is the lower one was
\* retained, and the cleanup gave it another saving
C13_Witness ==
    /\ Retained /\ store = "woolworths" /\ cleaned.rows # <<>>
    /\ cleaned.rows[1].original_price < cleaned.rows[1].sale_price
    /\ cleaned.rows[1].saving # products[1].saving
    /\ MasterOf(store, cleaned.rows)[1].original_price = products[1].original_price

-----------------------------------------------------------------------------
(* Badge classification *)

\* the element sub-queries of the badge classifiers: the image list, the
\* aria-label, the data attributes and the class lookups
BadgeQueries == {"img", "aria", "data", "class"}

\* C14: badge classification of a New World card never raises and never has
\* the card rejected: when a sub-query of a classifier fails, is_club_deal and
\* is_super_saver still answer, and the card gives a record whenever it gives
\* one without the failure; with no signal at all both badges are unset.
C14_BadgesNeverRaiseNorReject ==
    (pc # "parse" /\ store = "newworld") =>
        /\ card.fault \in BadgeQueries =>
              /\ is_club_deal(card).kind = "ok"
              /\ is_super_saver(card).kind = "ok"
              /\ parse_product_card_NW([card EXCEPT !.fault = "none"], clock).kind = "ok"
                     => parsed.kind = "ok"
        /\ (Emitted /\ card.badge_at = 0 /\ card.club_signal = "none"
                /\ card.super_signal = "none") =>
              (~parsed.val.is_club_deal /\ ~parsed.val.is_super_saver)

\* C15: after the Mad Butcher cleanup and after the New World cleanup no row
\* that is kept has a price below 5.00, as the docstrings and messages of the
\* two scripts say.
C15_NoKeptPriceBelowFive ==
    (Retained /\ store \in {"newworld", "madbutcher"}) =>
        \A i \in 1..Len(cleaned.rows) : SalePrice(cleaned.rows[i]) >= 500

-----------------------------------------------------------------------------
(* The published artifact *)

\* the sum of a count mapping over a set of its keys
RECURSIVE SumCounts(_, _)
SumCounts(counts, keys) ==
    IF keys = {} THEN 0
    ELSE LET k == CHOOSE x \in keys : TRUE
         IN counts[k] + SumCounts(counts, keys \ {k})

\* api/latest has been written
ApiWritten == pc \in {"upload", "finished"}

\* C16: in the JSON artifact of create_api_files total_products is the length
\* of the products list, the count mapping has one entry for each store label
\* that occurs in the master file and no other, each entry is the number of
\* products with that label, and the entries add up to total_products.
C16_ApiCountsAgree ==
    ApiWritten =>
        LET a == Val(api)
        IN /\ a.products = Val(master)
           /\ a.total_products = Len(a.products)
           /\ DOMAIN a.stores = {a.products[i].store : i \in 1..Len(a.products)}
           /\ \A label \in DOMAIN a.stores :
                 a.stores[label] =
                     Cardinality({i \in 1..Len(a.products) : a.products[i].store = label})
           /\ SumCounts(a.stores, DOMAIN a.stores) = a.total_products

\* C16, its case: an artifact of five products from three stores, the fourth
\* store's cleaned file holding no row
C16_Witness ==
    /\ ApiWritten
    /\ Val(api).total_products = 5
    /\ Cardinality(DOMAIN Val(api).stores) = 3
    /\ Val(files.paknsave) = <<>>

-----------------------------------------------------------------------------
(* The stores' scrapers and cleanups side by side in one working directory *)

\* the word after the store in the name of a scraper's file:
\* newworld_specials_, paknsave_deals_, woolworths_specials_, madbutcher_products_
raw_kind(s) ==
    CASE s = "newworld" -> "specials"
      [] s = "paknsave" -> "deals"
      [] s = "woolworths" -> "specials"
      [] OTHER -> "products"

\* a file name <store>_<kind>_<timestamp>.csv
FileName(s, kind, ts) == [store |-> s, kind |-> kind, ts |-> ts]

\* an auto-detect pattern that leaves the store open: *_<kind>_*.csv
input_glob_any_store(s) == [store |-> "*", kind |-> raw_kind(s)]

\* the pattern a cleanup script looks for its input with: '<store>_<kind>_*.csv',
\* and 'woolworths_*.csv' in cleanup_woolworths
input_glob(s) ==
    IF s = "woolworths" THEN [store |-> s, kind |-> "*"]
    ELSE [store |-> s, kind |-> raw_kind(s)]

\* glob.glob(pattern) with the names holding 'cleaned' taken out
glob_not_cleaned(dir, pattern) ==
    {f \in dir : /\ pattern.store \in {"*", f.name.store}
                 /\ pattern.kind \in {"*", f.name.kind}
                 /\ f.name.kind # "cleaned"}

\* the order of two file names as texts: store, then kind, then timestamp
NameRank(word) ==
    CASE word = "cleaned" -> 1 [] word = "deals" -> 2 [] word = "madbutcher" -> 3
      [] word = "newworld" -> 4 [] word = "paknsave" -> 5 [] word = "products" -> 6
      [] word = "specials" -> 7 [] OTHER -> 8
NameBefore(a, b) ==
    \/ NameRank(a.store) < NameRank(b.store)
    \/ a.store = b.store /\ NameRank(a.kind) < NameRank(b.kind)
    \/ a.store = b.store /\ a.kind = b.kind /\ a.ts <= b.ts

\* the input file(s) a cleanup script can start from: files[0] after
\* files.sort(reverse=True); cleanup_woolworths does not sort, and glob gives
\* the names in no particular order
input_files(s, found) ==
    IF s = "woolworths" THEN found
    ELSE {f \in found : \A g \in found : NameBefore(g.name, f.name)}

\* df.to_csv(name): the file is in the directory, in place of one of that name
write_file(dir, name, rows) ==
    {f \in dir : f.name # name} \cup {[name |-> name, rows |-> rows]}

InitPipeline ==
    /\ store = "all"
    /\ pc = "pipeline"
    /\ clock = 1
    /\ products = <<>>
    /\ NoCard /\ NoCleanup /\ NoScrape /\ NoAggregate /\ NoDaily
    /\ directory = {}
    /\ stage = [s \in Stores |-> "scrape"]
    /\ \E pool \in {[s \in Stores |->
                       {parse_product_card(s, c, 1).val : c \in BatchCards(s)}]} :
          scraped \in [newworld : SeqsUpTo(pool["newworld"], 1),
                       paknsave : SeqsUpTo(pool["paknsave"], 1),
                       woolworths : SeqsUpTo(pool["woolworths"], 1),
                       madbutcher : SeqsUpTo(pool["madbutcher"], 1)]

not_pipeline_vars == <<store, pc, products, card_vars, scrape_vars, aggregate_vars>>

\* a store's scraper, main(): the products are saved under a name of the
\* store, or there are none and no file is written
RunScraper(s) ==
    /\ pc = "pipeline"
    /\ stage[s] = "scrape"
    /\ directory' = IF scraped[s] = <<>> THEN directory
                    ELSE write_file(directory, FileName(s, raw_kind(s), clock),
                                    save_to_csv(s, scraped[s]))
    /\ stage' = [stage EXCEPT ![s] = "clean"]
    /\ clock' = clock + 1
    /\ UNCHANGED <<not_pipeline_vars, scraped, daily_vars>>

\* a store's cleanup script, __main__: it finds its input, cleans it and writes
\* <store>_cleaned_<timestamp>.csv, or exits with an error
RunCleanup(s) ==
    /\ pc = "pipeline"
    /\ stage[s] = "clean"
    /\ \E found \in {glob_not_cleaned(directory, input_glob(s))} :
          IF found = {}
          THEN /\ stage' = [stage EXCEPT ![s] = "failed"]
               /\ UNCHANGED directory
          ELSE \E f \in input_files(s, found) :
                  \E result \in {cleanup(s, f.rows)} :
                      IF result.status = "error"
                      THEN /\ stage' = [stage EXCEPT ![s] = "failed"]
                           /\ UNCHANGED directory
                      ELSE /\ directory' = write_file(directory,
                                                      FileName(s, "cleaned", clock),
                                                      result.rows)
                           /\ stage' = [stage EXCEPT ![s] = "done"]
    /\ clock' = clock + 1
    /\ UNCHANGED <<not_pipeline_vars, scraped, daily_vars>>

NextPipeline == \E s \in Stores : RunScraper(s) \/ RunCleanup(s)

SpecPipeline == InitPipeline /\ [][NextPipeline]_vars

\* what a store's scraper and cleanup give when no other store runs
Sequential(s) ==
    IF scraped[s] = <<>> THEN CleanFailed ELSE cleanup(s, save_to_csv(s, scraped[s]))

\* the files of a store and a kind in the directory
FilesOf(s, kind) == {f \in directory : f.name.store = s /\ f.name.kind = kind}

\* C17: in whatever order the stores' scrapers and cleanups take their steps,
\* each store ends with the cleaned batch it gets when the stores run one
\* after another, and fails exactly when it fails then; the file a scraper
\* wrote stays as it was written, and each store has its own files only.
C17_StoresDoNotInterfere ==
    pc = "pipeline" =>
        \A s \in Stores :
            /\ stage[s] = "done" =>
                  /\ Sequential(s).status = "ok"
                  /\ \E f \in FilesOf(s, "cleaned") : FilesOf(s, "cleaned") = {f}
                  /\ \A f \in FilesOf(s, "cleaned") : f.rows = Sequential(s).rows
            /\ stage[s] = "failed" =>
                  (Sequential(s).status = "error" /\ FilesOf(s, "cleaned") = {})
            /\ (stage[s] # "scrape" /\ scraped[s] # <<>>) =>
                  \E f \in FilesOf(s, raw_kind(s)) :
                      /\ FilesOf(s, raw_kind(s)) = {f}
                      /\ f.rows = save_to_csv(s, scraped[s])
            /\ stage[s] = "scrape" => (FilesOf(s, raw_kind(s)) \cup FilesOf(s, "cleaned")) = {}

\* C17, its case: the Woolworths scraper wrote its file between the New World
\* scraper and the New World cleanup, and all four stores are done
C17_Witness ==
    /\ pc = "pipeline"
    /\ \A s \in Stores : stage[s] = "done"
    /\ \E nw \in FilesOf("newworld", "specials") :
          \E ww \in FilesOf("woolworths", "specials") :
              \E cl \in FilesOf("newworld", "cleaned") :
                  nw.name.ts < ww.name.ts /\ ww.name.ts < cl.name.ts

-----------------------------------------------------------------------------
(* New World prices *)

\* the values of the tokens of the card in hand that carry a label
TokenValues(hint) ==
    {Price(card.tokens[i]) : i \in {j \in 1..Len(card.tokens) : card.tokens[j].hint = hint}}

\* the values of all its tokens that are within 0.50 and 500.00
GenericInRange ==
    {p \in {Price(card.tokens[i]) : i \in 1..Len(card.tokens)} : 50 <= p /\ p <= 50000}

\* a New World card gave a record
Emitted_NW == Emitted /\ store = "newworld"

BadgeToken == IF card.badge_at > 0 THEN Some(Price(card.tokens[card.badge_at])) ELSE None

\* the in-range tokens that are no per-kilogram reference and are below a price
DiscountCandidates(original_price) ==
    {p \in GenericInRange : p \notin TokenValues("perkg") /\ p < original_price}

\* C19: on a New World card with a club badge the sale price is the
\* badge-adjacent token when that is in range and below original_price;
\* otherwise (no such token, or one out of range or not below original_price)
\* the smallest in-range token that is no per-kilogram reference and is below
\* original_price, if there is one; otherwise original_price.
C19_ClubOverride ==
    (Emitted_NW /\ parsed.val.is_club_deal) =>
        LET original_price == parsed.val.original_price
            candidates == DiscountCandidates(original_price)
        IN parsed.val.sale_price =
              IF /\ ~IsNone(BadgeToken)
                 /\ 50 <= Val(BadgeToken) /\ Val(BadgeToken) <= 50000
                 /\ Val(BadgeToken) < original_price
              THEN Val(BadgeToken)
              ELSE IF candidates # {}
              THEN CHOOSE p \in candidates : \A q \in candidates : p <= q
              ELSE original_price


\* the first per-kilogram reference token of the card, in the order of its text
FirstPerKgToken ==
    LET at == {j \in 1..Len(card.tokens) : card.tokens[j].hint = "perkg"}
    IN IF at = {} THEN None
       ELSE Some(Price(card.tokens[CHOOSE j \in at : \A k \in at : j <= k]))

\* C20: in every record of New World and of Mad Butcher price_per_kg is the
\* first per-kilogram reference token of the card when it has one; otherwise,
\* when the unit type is "kg", it is the final sale_price of the record, also
\* when a club badge lowered it; otherwise it is absent.  A Mad Butcher card
\* has no per-kilogram reference tokens.
C20_PricePerKg ==
    /\ Emitted_NW =>
          parsed.val.price_per_kg =
              IF ~IsNone(FirstPerKgToken) THEN FirstPerKgToken
              ELSE IF parsed.val.unit_type = "kg" THEN Some(parsed.val.sale_price)
              ELSE None
    /\ (Emitted /\ store = "madbutcher") =>
          parsed.val.price_per_kg =
              IF parsed.val.unit_type = "kg" THEN Some(parsed.val.sale_price)
              ELSE None

-----------------------------------------------------------------------------
(* Mad Butcher prices *)

\* the text of the first price element of a kind on the card, if any
FirstAmountOf(kind) ==
    LET at == {j \in 1..Len(card.amounts) : card.amounts[j].kind = kind}
    IN IF at = {} THEN None
       ELSE Some(card.amounts[CHOOSE j \in at : \A k \in at : j <= k].text)

\* a Mad Butcher card gave a record
Emitted_MB == Emitted /\ store = "madbutcher"

\* C21: extract_price of Mad Butcher on a card with a struck-through (del)
\* price D and a sale (ins) price S gives sale_price = S and
\* original_price = D, in whichever order the two elements stand; on a card
\* with no del element it gives original_price = sale_price.
C21_DiscountPair ==
    Emitted_MB =>
        LET ins == FirstAmountOf("ins")
            del == FirstAmountOf("del")
        IN /\ (/\ ~IsNone(ins) /\ ~IsNone(del)
               /\ ~Falsy(parse_price_text(Val(ins)))
               /\ ~Falsy(parse_price_text(Val(del)))) =>
                  /\ parsed.val.sale_price = Val(parse_price_text(Val(ins)))
                  /\ parsed.val.original_price = Val(parse_price_text(Val(del)))
           /\ IsNone(del) => parsed.val.original_price = parsed.val.sale_price

-----------------------------------------------------------------------------
(* The plausible bounds of a sale price *)

\* the card of the run carries nothing a price could be read from
NoPriceToken ==
    CASE store \in {"newworld", "paknsave"} -> card.tokens = <<>>
      [] store = "woolworths" ->
            /\ IsNone(card.dollars_cents)
            /\ card.sel_prices = <<>> /\ card.text_prices = <<>>
      [] store = "madbutcher" ->
            /\ card.amounts = <<>>
            /\ IsNone(FirstDollarPrice(full_text_MB(card)))

-----------------------------------------------------------------------------
(* The deal type of a master record *)

\* the badges set on a cleaned row, by the names the master file gives them
BadgeSet(s, row) ==
    CASE s = "newworld" ->
             (IF row.is_club_deal THEN {"Club Deal"} ELSE {})
             \cup (IF row.is_super_saver THEN {"Super Saver"} ELSE {})
      [] s = "woolworths" ->
             (IF row.is_club_price THEN {"Club Price"} ELSE {})
             \cup (IF row.is_on_special THEN {"On Special"} ELSE {})
      [] s = "paknsave" ->
             (IF row.is_everyday_low THEN {"EVERYDAY"} ELSE {})
             \cup (IF row.is_extra_low THEN {"EXTRA"} ELSE {})
             \cup (IF row.is_super_deal THEN {"SUPER"} ELSE {})

\* the badges a deal_type names: one label for New World and Woolworths, the
\* joined labels for PAK'nSAVE
BadgesNamed(s, deal_type) ==
    IF IsNone(deal_type) THEN {}
    ELSE IF s = "paknsave"
    THEN {Val(deal_type)[i] : i \in 1..Len(Val(deal_type))}
    ELSE {Val(deal_type)}

\* C23: the deal_type of every master record of New World, PAK'nSAVE and
\* Woolworths names every badge set on the record and no other, and is absent
\* exactly when the record has no badge; a New World record with the club-deal
\* and the super-saver badge names both.
C23_DealTypeNamesTheBadgeSet ==
    (Retained /\ store # "madbutcher") =>
        \A i \in 1..Len(cleaned.rows) :
            /\ BadgesNamed(store, MasterOf(store, cleaned.rows)[i].deal_type)
                   = BadgeSet(store, cleaned.rows[i])
            /\ IsNone(MasterOf(store, cleaned.rows)[i].deal_type)
                   <=> BadgeSet(store, cleaned.rows[i]) = {}

-----------------------------------------------------------------------------
(* The daily pipeline: main() of daily_scrape_v4_combined, run after run in *)
(* one working directory                                                    *)

\* the number of runs of main() that are followed
MaxRuns == 2

\* main(): the scrapers and then the cleaners, in the order of its two lists
scripts ==
    <<[phase |-> "scrape", store |-> "newworld"],
      [phase |-> "scrape", store |-> "paknsave"],
      [phase |-> "scrape", store |-> "woolworths"],
      [phase |-> "scrape", store |-> "madbutcher"],
      [phase |-> "clean", store |-> "newworld"],
      [phase |-> "clean", store |-> "paknsave"],
      [phase |-> "clean", store |-> "woolworths"],
      [phase |-> "clean", store |-> "madbutcher"]>>

\* run_script: True when the script's process ended with exit code 0
run_script(exit_code) == exit_code = 0

\* a main() that goes on to the next script whatever run_script returned
main_goes_on_always(ok) == ok = ok

\* main(): "if not run_script(script): sys.exit(1)"
main_goes_on(ok) == ok

\* a scraper's main(): an exception of scrape_all is raised again and ends the
\* process with an error; products or no products, it ends with exit code 0
scraper_exit(outcome) == IF outcome = "raises" THEN 1 ELSE 0

\* the products of a scrape at a time: parse_product_card sets scraped_at
Stamp(rows, now) == [i \in 1..Len(rows) |-> [rows[i] EXCEPT !.scraped_at = now]]

\* combine_csvs: sorted(Path('.').glob('<store>_cleaned_*.csv'))[-1], none
\* when the glob finds no file
latest_cleaned(dir, s) ==
    LET found == {f \in dir : f.name.store = s /\ f.name.kind = "cleaned"}
    IN IF found = {} THEN None
       ELSE Some((CHOOSE f \in found : \A g \in found : g.name.ts <= f.name.ts).rows)

\* organize_files: the cleaned and the raw files of the four stores are moved
\* to the dated folder; what stays in the working directory
organize_files(dir) ==
    {f \in dir : ~(f.name.kind = "cleaned" \/ f.name.kind = raw_kind(f.name.store))}

InitDaily ==
    /\ store = "all"
    /\ pc = "scripts"
    /\ clock = 1
    /\ products = <<>>
    /\ NoCard /\ NoCleanup /\ NoScrape /\ NoAggregate
    /\ directory = {}
    /\ stage = <<>>
    /\ \E pool \in {[s \in Stores |->
                       {<<parse_product_card(s, c, 1).val>> : c \in BatchCards(s)}]} :
          scraped \in [newworld : pool["newworld"], paknsave : pool["paknsave"],
                       woolworths : pool["woolworths"], madbutcher : pool["madbutcher"]]
    /\ run = 1 /\ step = 1 /\ started = 1 /\ log = <<>>
    /\ input_file = [s \in Stores |-> None]

not_daily_vars == <<store, products, card_vars, scrape_vars, stage, scraped>>

\* where main() stands after run_script returned for the script at step
AfterScript(ok) ==
    IF main_goes_on(ok)
    THEN /\ step' = step + 1
         /\ pc' = IF step = Len(scripts) THEN "combine" ELSE "scripts"
    ELSE /\ step' = step
         /\ pc' = "exited"

\* main(), phase 1: run_script of a scraper.  The scraper saves its products
\* under a name of the store, or finds none and writes no file, or fails.
ScraperScript ==
    /\ pc = "scripts"
    /\ scripts[step].phase = "scrape"
    /\ \E outcome \in {"products", "empty", "raises"} :
          \E s \in {scripts[step].store} :
              /\ directory' =
                    IF outcome = "products"
                    THEN write_file(directory, FileName(s, raw_kind(s), clock),
                                    save_to_csv(s, Stamp(scraped[s], clock)))
                    ELSE directory
              /\ \E ok \in {run_script(scraper_exit(outcome))} :
                    /\ log' = Append(log, [script |-> scripts[step], ok |-> ok])
                    /\ AfterScript(ok)
    /\ clock' = clock + 1
    /\ UNCHANGED <<not_daily_vars, aggregate_vars, run, started, input_file>>

\* main(), phase 2: run_script of a cleanup script, started without an input
\* file: it finds its input, cleans it and writes <store>_cleaned_<timestamp>,
\* or exits with an error
CleanerScript ==
    /\ pc = "scripts"
    /\ scripts[step].phase = "clean"
    /\ \E s \in {scripts[step].store} :
       \E found \in {glob_not_cleaned(directory, input_glob(s))} :
          IF found = {}
          THEN /\ UNCHANGED <<directory, input_file>>
               /\ log' = Append(log, [script |-> scripts[step], ok |-> run_script(1)])
               /\ AfterScript(run_script(1))
          ELSE \E f \in input_files(s, found) :
                  \E result \in {cleanup(s, f.rows)} :
                      /\ input_file' =
                            [input_file EXCEPT
                                ![s] = Some([chosen |-> f.name,
                                             found |-> {g.name : g \in found}])]
                      /\ IF result.status = "error"
                         THEN /\ UNCHANGED directory
                              /\ log' = Append(log, [script |-> scripts[step],
                                                     ok |-> run_script(1)])
                              /\ AfterScript(run_script(1))
                         ELSE /\ directory' = write_file(directory,
                                                         FileName(s, "cleaned", clock),
                                                         result.rows)
                              /\ log' = Append(log, [script |-> scripts[step],
                                                     ok |-> run_script(0)])
                              /\ AfterScript(run_script(0))
    /\ clock' = clock + 1
    /\ UNCHANGED <<not_daily_vars, aggregate_vars, run, started>>

\* main(), phase 3: combine_csvs on the latest cleaned file of each store in
\* the working directory; its exception is not caught and ends main()
DailyCombine ==
    /\ pc = "combine"
    /\ run > 0
    /\ files' = [s \in Stores |-> latest_cleaned(directory, s)]
    /\ \E result \in {combine_csvs([s \in Stores |-> latest_cleaned(directory, s)])} :
          IF result.status = "raised"
          THEN /\ pc' = "crashed"
               /\ UNCHANGED <<master, phases>>
          ELSE /\ master' = Some(result.rows)
               /\ phases' = Append(phases, "combine")
               /\ pc' = "organize"
    /\ clock' = clock + 1
    /\ UNCHANGED <<not_daily_vars, directory, daily_vars, folder, api, pushed>>

\* main(), phase 4: organize_files empties the working directory of the
\* stores' files
DailyOrganize ==
    /\ pc = "organize"
    /\ run > 0
    /\ directory' = organize_files(directory)
    /\ folder' = TRUE
    /\ phases' = Append(phases, "organize")
    /\ pc' = "api"
    /\ UNCHANGED <<not_daily_vars, clock, daily_vars, files, master, api, pushed>>

\* main() is started again, in the directory the run before left
NextRun ==
    /\ pc \in {"exited", "crashed", "finished"}
    /\ run > 0 /\ run < MaxRuns
    /\ run' = run + 1
    /\ step' = 1
    /\ started' = clock
    /\ log' = <<>>
    /\ input_file' = [s \in Stores |-> None]
    /\ phases' = <<>>
    /\ master' = None
    /\ files' = <<>>
    /\ folder' = FALSE
    /\ pc' = "scripts"
    /\ UNCHANGED <<not_daily_vars, clock, directory, api, pushed>>

NextDaily ==
    ScraperScript \/ CleanerScript \/ DailyCombine \/ DailyOrganize
    \/ CreateApi \/ Upload \/ NextRun

SpecDaily == InitDaily /\ [][NextDaily]_vars

\* the stages of main() after the scripts, in order
later_phases == <<"combine", "organize", "api", "upload">>

\* C24: main() runs its stages in the order scrape (New World, PAK'nSAVE,
\* Woolworths, Mad Butcher), clean (same order), combine, organize, create API
\* files, upload; a stage starts only when every stage before it reported
\* success, and after the first scraper or cleaner that reports failure no
\* stage runs.
C24_StagesInOrder ==
    run > 0 =>
        /\ Len(log) <= Len(scripts)
        /\ \A i \in 1..Len(log) : log[i].script = scripts[i]
        /\ \A i \in 1..(Len(log) - 1) : log[i].ok
        /\ (log # <<>> /\ ~log[Len(log)].ok) => (pc = "exited" /\ phases = <<>>)
        /\ phases # <<>> => (Len(log) = Len(scripts) /\ log[Len(log)].ok)
        /\ Len(phases) <= Len(later_phases)
        /\ \A i \in 1..Len(phases) : phases[i] = later_phases[i]

\* C24, its case: the PAK'nSAVE cleanup reported failure after five scripts
\* that succeeded, and main() exited
C24_Witness ==
    /\ run > 0 /\ pc = "exited"
    /\ Len(log) = 6 /\ ~log[6].ok
    /\ \A i \in 1..5 : log[i].ok
    /\ phases = <<>>

\* the run of main() has written its master file
DailyMasterWritten == run > 0 /\ ~IsNone(master)

\* C25: every record of the master file a run of main() writes was scraped
\* during that run, whatever earlier runs left in the working directory: no
\* cleanup and no aggregation picks up a raw or cleaned batch of an earlier run.
C25_MasterIsOfThisRun ==
    DailyMasterWritten =>
        \A i \in 1..Len(Val(master)) : Val(master)[i].scraped_at >= started

\* the raw files of a store that a cleanup script found
LatestOf(names) == CHOOSE n \in names : \A m \in names : m.ts <= n.ts

\* C26: a cleanup script started without an input file takes, of the raw
\* batches of its store it finds, the one with the greatest timestamp in its
\* name, for each of the four stores.
C26_CleanupTakesTheLatestBatch ==
    run > 0 =>
        \A s \in Stores :
            ~IsNone(input_file[s]) =>
                Val(input_file[s]).chosen = LatestOf(Val(input_file[s]).found)

-----------------------------------------------------------------------------
(* Pagination *)

\* C27: scrape_all fetches at most max_pages pages (100 for New World,
\* PAK'nSAVE and Woolworths, 20 for Mad Butcher), the pages 1, 2, ... in
\* order; it fetches a further page only when every page fetched so far was
\* fetched without failure and yielded a record, and none once the limit is
\* reached.
C27_AtMostMaxPages ==
    (store \in Stores /\ pc \in {"fetch", "cards", "main"}) =>
        LET limit == IF store = "madbutcher" THEN 20 ELSE 100
        IN /\ Len(fetched) <= limit
           /\ fetched = [i \in 1..Len(fetched) |-> i]
           /\ Len(collected) <= Len(fetched)
           /\ Len(fetched) <= Len(collected) + 1
           /\ pc = "fetch" =>
                 /\ Len(collected) = Len(fetched)
                 /\ failed_at = 0
                 /\ page_num = Len(fetched) + 1
                 /\ Len(fetched) < limit

\* C27, its case: the Mad Butcher scraper fetched twenty pages that all
\* yielded a record, and its loop is over
C27_Witness ==
    /\ store = "madbutcher" /\ pc = "main"
    /\ Len(fetched) = 20 /\ Len(collected) = 20 /\ failed_at = 0

\* one list is the beginning of another
IsPrefix(a, b) == Len(a) <= Len(b) /\ SubSeq(b, 1, Len(a)) = a

\* C28: the batch of scrape_all is, page after page in the order fetched, the
\* records of the page's cards that parsed, in the order of the cards: each
\* step leaves the records gathered so far where and as they are, and adds
\* those of the page just scraped, each once.
C28_BatchIsThePagesInOrder ==
    [][/\ products = Flatten(collected)
       /\ products' = Flatten(collected')
       /\ IsPrefix(products, products')
       /\ products' # products =>
             /\ products' = products \o ParsedUpTo(Len(product_cards))
             /\ collected' = Append(collected, ParsedUpTo(Len(product_cards)))
       /\ \A i, j \in 1..Len(products') : products'[i] = products'[j] => i = j]_vars

\* C28, its case: two pages were added, the first with two records, the
\* second with the record of one card that parsed next to one that did not
C28_Witness ==
    /\ pc = "main" /\ Len(collected) = 2
    /\ Len(collected[1]) = 2 /\ Len(collected[2]) = 1
    /\ Len(product_cards) = 2
    /\ products = collected[1] \o collected[2]

-----------------------------------------------------------------------------
(* New World: the sale price against the original price *)

\* C29: in every record of New World sale_price is at most original_price,
\* and it is below original_price only on a card with the club-deal badge: a
\* card without it, with or without the super-saver badge, has
\* sale_price = original_price.
C29_SaleBelowOriginalOnlyForClub ==
    Emitted_NW =>
        /\ parsed.val.sale_price <= parsed.val.original_price
        /\ parsed.val.sale_price < parsed.val.original_price => parsed.val.is_club_deal
        /\ ~parsed.val.is_club_deal => parsed.val.sale_price = parsed.val.original_price

\* C29, its case: a card without the club-deal badge that holds a price below
\* its unit price gave a record at the unit price
C29_Witness ==
    /\ Emitted_NW /\ ~parsed.val.is_club_deal
    /\ DiscountCandidates(parsed.val.original_price) # {}
    /\ parsed.val.sale_price = parsed.val.original_price

-----------------------------------------------------------------------------
(* PAK'nSAVE in the master file *)

\* C30: every PAK'nSAVE record of the master file has original_price equal to
\* price, saving 0 and percent_off 0, whatever the card and its badges.
C30_PaknsaveHasNoDiscount ==
    (Retained /\ store = "paknsave") =>
        /\ Len(MasterOf(store, cleaned.rows)) = Len(cleaned.rows)
        /\ \A i \in 1..Len(cleaned.rows) :
              \E rec \in {MasterOf(store, cleaned.rows)[i]} :
                  /\ rec.store = "PAK'nSAVE"
                  /\ rec.original_price = rec.price
                  /\ rec.price = cleaned.rows[i].price
                  /\ rec.saving = 0
                  /\ FracEq(rec.percent_off, Frac(0, 10))

\* C30, its case: a PAK'nSAVE card with a badge was scraped, kept by the
\* cleanup and combined
C30_Witness ==
    /\ Retained /\ store = "paknsave" /\ Len(cleaned.rows) = 1
    /\ cleaned.rows[1].is_extra_low
    /\ ~IsNone(MasterOf(store, cleaned.rows)[1].deal_type)
=============================================================================
